---- MODULE Spec2Model ----
(***************************************************************************)
(* Model of the multi-user todo server (src/server.js, lines 1-365): the  *)
(* per-user cache userDataCache, the per-user JSON files under user_data, *)
(* and the six /todos request handlers.  Every handler is a synchronous   *)
(* callback, so one action is one whole handler, from loadUserTodos to    *)
(* the response.                                                          *)
(***************************************************************************)
EXTENDS Integers, Sequences, FiniteSets, TLC

VARIABLES
    userDataCache,  \* Map userId -> {todos, nextId}            (server.js:21)
    disk,           \* file name -> content of the file          (server.js:8, 25)
    returned,       \* per user: ids returned by creates since the process started
    deleted,        \* per user: ids deleted successfully since the process started
    lastWrite,      \* per user: whether the durable write of its latest mutation was done
    everReturned,   \* per user: ids returned by creates in this and earlier processes
    creates,        \* number of successful creates so far
    task,           \* the handler that is on the call stack between two of its statements
    seen,           \* the answers of the read request handled last, if the last step was one
    clock,          \* frontend: milliseconds since the page was loaded
    timeout,        \* frontend: the timer of the debounced search handler (part_000:431)
    events,         \* frontend: the input events of the search box so far
    calls,          \* frontend: the calls of the debounced function so far
    currentFilter,  \* frontend: let currentFilter                (part_000:11)
    searchQuery,    \* frontend: let searchQuery                  (part_000:12)
    inFlight,       \* frontend: the list requests that are awaiting their response
    rendered,       \* frontend: the todos shown in todosList, in their order
    single          \* single-user variant: let todos, let nextId (server.js:381-382)

vars == <<userDataCache, disk, returned, deleted, lastWrite, everReturned, creates,
          task, seen, clock, timeout, events, calls, currentFilter, searchQuery,
          inFlight, rendered, single>>

\* The variables of the multi-user server, and the others.
serverVars == <<userDataCache, disk, returned, deleted, lastWrite, everReturned, creates,
                task, seen>>

outsideServer == <<clock, timeout, events, calls, currentFilter, searchQuery,
                   inFlight, rendered, single>>

(***************************************************************************)
(* Bounds of the model.                                                    *)
(***************************************************************************)
MaxCreates == 2     \* successful creates explored in one behaviour
MaxSteppedCreates == 1  \* the same, where handlers are explored statement by statement
MaxDamagedCreates == 1  \* the same, where the files can hold any damaged content

(***************************************************************************)
(* JavaScript values of a request body, and strings as character tuples.   *)
(***************************************************************************)
Undefined == [t |-> "undefined"]
JSString(s) == [t |-> "string", v |-> s]
JSBoolean(b) == [t |-> "boolean", v |-> b]
JSNumber(n) == [t |-> "number", v |-> n]
Null == [t |-> "null"]

Truthy(x) ==
    CASE x.t = "undefined" -> FALSE
      [] x.t = "null" -> FALSE
      [] x.t = "boolean" -> x.v
      [] x.t = "number" -> x.v # 0
      [] x.t = "string" -> x.v # <<>>

Whitespace == {" ", "\t"}

RECURSIVE trimStart(_)
trimStart(s) ==
    IF s # <<>> /\ Head(s) \in Whitespace THEN trimStart(Tail(s)) ELSE s

RECURSIVE trimEnd(_)
trimEnd(s) ==
    IF s # <<>> /\ s[Len(s)] \in Whitespace
    THEN trimEnd(SubSeq(s, 1, Len(s) - 1))
    ELSE s

trim_leading(s) == trimStart(s)

trim(s) == trimEnd(trimStart(s))

LOW == <<"l", "o", "w">>
MEDIUM == <<"m", "e", "d", "i", "u", "m">>
HIGH == <<"h", "i", "g", "h">>

(***************************************************************************)
(* Users, files and file contents.                                         *)
(***************************************************************************)
Users == {"user_0001", "user_0002"}

\* path.join(DATA_DIR, `todos_${userId}.json`)
getUserDataFile_shared(userId) == "todos.json"

getUserDataFile(userId) == "todos_" \o userId \o ".json"

Files == {getUserDataFile(u) : u \in Users}

\* A file is absent, or holds the text JSON.stringify wrote, or holds a
\* prefix of that text (writeFileSync truncates the file and then writes).
NoFile == [kind |-> "absent"]
TruncatedText == [kind |-> "partial"]
JSONstringify_noNextId(todos, nextId) == [kind |-> "json", todos |-> todos, nextId |-> 0]

JSONstringify(todos, nextId) == [kind |-> "json", todos |-> todos, nextId |-> nextId]

existsSync(slot) == slot.kind # "absent"

\* JSON.parse throws on a truncated text.
JSONparse(slot) ==
    IF slot.kind = "json"
    THEN [threw |-> FALSE, todos |-> slot.todos, nextId |-> slot.nextId]
    ELSE [threw |-> TRUE]

\* A snapshot text without the key "nextId" parses to an object whose nextId
\* is undefined; one without the key "todos" to an object whose todos is.
NoNextId == -1
NoTodos == <<[typeof |-> "undefined", value |-> 0]>>

\* parsed.nextId || 1
OrOne_keep(n) == n

OrOne(n) == IF n = 0 \/ n = NoNextId THEN 1 ELSE n

\* parsed.todos || []
OrEmpty(todos) == IF todos = NoTodos THEN <<>> ELSE todos

\* loadUserTodos returns the user's data object.  cached says whether the
\* object returned is the one the cache holds (a later in-place change of it
\* is then a change of the cache entry); cache is the cache after the call.
loadUserTodos(userId, cache, dsk) ==
    IF userId \in DOMAIN cache
    THEN [userData |-> cache[userId], cached |-> TRUE, cache |-> cache]
    ELSE LET slot == dsk[getUserDataFile(userId)] IN
         IF existsSync(slot)
         THEN LET parsed == JSONparse(slot) IN
              IF parsed.threw
              THEN [userData |-> [todos |-> <<>>, nextId |-> 1],
                    cached |-> FALSE, cache |-> cache]
              ELSE LET userData == [todos |-> OrEmpty(parsed.todos),
                                    nextId |-> OrOne(parsed.nextId)]
                   IN [userData |-> userData, cached |-> TRUE,
                       cache |-> [u \in DOMAIN cache \cup {userId} |->
                                    IF u = userId THEN userData ELSE cache[u]]]
         ELSE LET userData == [todos |-> <<>>, nextId |-> 0]
              IN [userData |-> userData, cached |-> TRUE,
                  cache |-> [u \in DOMAIN cache \cup {userId} |->
                               IF u = userId THEN userData ELSE cache[u]]]

\* Outcomes of fs.writeFileSync: the write completes; it throws before the
\* file is touched; it throws after the file was truncated.
WriteOutcomes == {"ok", "failed", "truncated"}

\* What saveUserTodos tells of a write: it returned from the try block, or it
\* logged the error in its catch (server.js:75-77).
outcome(w) == IF w = "ok" THEN "ok" ELSE "failed"

\* saveUserTodos: cache and dsk after the call with write outcome w.
saveUserTodos_cacheOnly(userId, todos, nextId, cache, dsk, w) ==
    [disk |-> dsk,
     cache |-> IF w = "ok"
               THEN [u \in DOMAIN cache \cup {userId} |->
                       IF u = userId THEN [todos |-> todos, nextId |-> nextId]
                       ELSE cache[u]]
               ELSE cache]

saveUserTodos(userId, todos, nextId, cache, dsk, w) ==
    LET userFile == getUserDataFile(userId) IN
    IF w = "ok"
    THEN [disk |-> [dsk EXCEPT ![userFile] = JSONstringify(todos, nextId)],
          cache |-> [u \in DOMAIN cache \cup {userId} |->
                       IF u = userId THEN [todos |-> todos, nextId |-> nextId]
                       ELSE cache[u]]]
    ELSE [disk |-> IF w = "truncated"
                   THEN [dsk EXCEPT ![userFile] = TruncatedText]
                   ELSE dsk,
          cache |-> cache]

\* The cache after the handler changed the object loadUserTodos returned.
InPlace_detached(l, userId, userData) == l.cache

InPlace(l, userId, userData) ==
    IF l.cached THEN [l.cache EXCEPT ![userId] = userData] ELSE l.cache

(***************************************************************************)
(* Validation (server.js:101-129) and the helpers of the handlers.         *)
(***************************************************************************)
MaxTitleLength == 500

\* validateTodo: "next" when the request goes on to the handler, otherwise
\* the error of the 400 response.
validateTodo(body) ==
    IF ~Truthy(body.title) \/ body.title.t # "string"
    THEN "Title is required and must be a string"
    ELSE IF Len(trim(body.title.v)) = 0
    THEN "Title cannot be empty"
    ELSE IF Len(body.title.v) > MaxTitleLength
    THEN "Title must be less than 500 characters"
    ELSE "next"

validPriorities == {JSString(LOW), JSString(MEDIUM), JSString(HIGH)}

validatePriority_any(priority) == TRUE

validatePriority(priority) == ~Truthy(priority) \/ priority \in validPriorities

\* parseInt(req.params.id, 10) of a path segment: a number or NaN.
parseInt_zero(param) ==
    IF param.digits THEN [nan |-> FALSE, v |-> 0] ELSE [nan |-> TRUE]

parseInt(param) ==
    IF param.digits THEN [nan |-> FALSE, v |-> param.v] ELSE [nan |-> TRUE]

isNaN(id) == id.nan

\* todos.findIndex((t) => t.id === id), 0-based, -1 when there is none.
findIndex_zero(todos, id) ==
    IF \E i \in 1..Len(todos) : todos[i].id = id.v THEN 0 ELSE -1

findIndex(todos, id) ==
    IF \E i \in 1..Len(todos) : todos[i].id = id.v
    THEN (CHOOSE i \in 1..Len(todos) :
            /\ todos[i].id = id.v
            /\ \A j \in 1..(i - 1) : todos[j].id # id.v) - 1
    ELSE -1

\* todos.splice(index, 1): the array without the element at the 0-based index.
splice_next(todos, index) ==
    SubSeq(todos, 1, index + 1) \o SubSeq(todos, index + 3, Len(todos))

splice(todos, index) ==
    SubSeq(todos, 1, index) \o SubSeq(todos, index + 2, Len(todos))

toLowerCaseChar(c) ==
    CASE c = "A" -> "a"
      [] c = "B" -> "b"
      [] OTHER -> c

toLowerCase(s) == [i \in 1..Len(s) |-> toLowerCaseChar(s[i])]

\* haystack.includes(needle)
includes_startsWith(haystack, needle) ==
    SubSeq(haystack, 1, Len(needle)) = needle

includes(haystack, needle) ==
    \E i \in 0..(Len(haystack) - Len(needle)) :
        SubSeq(haystack, i + 1, i + Len(needle)) = needle

\* Math.round((completed / total) * 100), total > 0
BelowHalf ==
    {<<23, 40>>, <<46, 80>>, <<69, 120>>, <<92, 160>>,
     <<29, 200>>, <<57, 200>>, <<113, 200>>, <<115, 200>>}

completionRate_floor(completed, total) ==
    IF total > 0 THEN (100 * completed) \div total ELSE 0

\* Math.round((completed / total) * 100): the quotient and the product are
\* doubles.  The product is the nearest integer to 100 * completed / total,
\* halves upwards, except where the exact value is a half k + 0.5 and the
\* double is just below it (23 / 40 * 100 = 57.49999999999999): there
\* Math.round gives k.  BelowHalf lists these pairs for total < 240.
completionRate(completed, total) ==
    IF total > 0
    THEN IF <<completed, total>> \in BelowHalf
         THEN (200 * completed + total) \div (2 * total) - 1
         ELSE (200 * completed + total) \div (2 * total)
    ELSE 0

(***************************************************************************)
(* Inputs of the requests.                                                 *)
(***************************************************************************)
Body(title, completed, priority) ==
    [title |-> title, completed |-> completed, priority |-> priority]

CreateBodies ==
    { Body(Undefined, JSBoolean(FALSE), Undefined),
      Body(JSString(<<" ", "A", " ">>), Undefined, Undefined),
      Body(JSString(<<"b">>), Undefined, JSString(<<"x">>)) }

UpdateBodies ==
    { Body(JSString(<<" ", "b", " ">>), JSBoolean(TRUE), Undefined),
      Body(JSString(<<" ">>), JSBoolean(TRUE), Undefined) }

\* The patches the properties of update are stated for: no field, each
\* field alone, all fields.
Patches ==
    { Body(Undefined, Undefined, Undefined),
      Body(JSString(<<" ", "b", " ">>), Undefined, Undefined),
      Body(Undefined, JSBoolean(TRUE), Undefined),
      Body(Undefined, JSBoolean(FALSE), Undefined),
      Body(Undefined, Undefined, JSString(HIGH)),
      Body(JSString(<<" ", "b", " ">>), JSBoolean(TRUE), JSString(HIGH)) }

IdParams == {[digits |-> TRUE, v |-> n] : n \in 0..(MaxCreates - 1)} \cup {[digits |-> FALSE]}

FilterInputs == {Undefined, JSString(<<"completed">>), JSString(<<"pending">>)}

SearchInputs == {Undefined, JSString(<<"A", " ">>)}

Times == {"2024-01-01T12:00:00.000Z"}

(***************************************************************************)
(* The request handlers as functions of the cache, the files and the       *)
(* request: the response (status, body) and the cache and files after the  *)
(* handler returned.  write is the outcome of the durable write the        *)
(* handler made, "none" when it made none.                                 *)
(***************************************************************************)
Result(status, body, cache, dsk, write) ==
    [status |-> status, body |-> body, cache |-> cache, disk |-> dsk, write |-> write]

Error(message) == [error |-> message]

\* A todos value that is not an array (the number 5 of {"todos": 5}) is kept
\* as this one-element tuple, which no array of todo records equals.
NotAnArray == <<[typeof |-> "number", value |-> 5]>>

\* [...todos], todos.filter, todos.find, todos.findIndex and todos.push throw
\* a TypeError unless todos is an array; the catch of the handler answers 500
\* (e.g. server.js:156-158).
isArray(todos) == todos # NotAnArray

InternalError(cache, dsk) ==
    Result(500, Error("Internal server error"), cache, dsk, "none")

\* The handler changed the object loadUserTodos returned into userData and
\* called saveUserTodos.
Saved(status, body, l, userId, userData, dsk, w) ==
    LET s == saveUserTodos(userId, userData.todos, userData.nextId,
                           InPlace(l, userId, userData), dsk, w)
    IN Result(status, body, s.cache, s.disk, w)

\* GET /todos (server.js:134-159)
handleGetTodos(userId, filterParam, search, cache, dsk) ==
    LET l == loadUserTodos(userId, cache, dsk)
        isCompleted(todo) == todo.completed
        isPending(todo) == ~todo.completed
        byFilter ==
            IF filterParam = JSString(<<"completed">>)
            THEN SelectSeq(l.userData.todos, isCompleted)
            ELSE IF filterParam = JSString(<<"pending">>)
            THEN SelectSeq(l.userData.todos, isPending)
            ELSE l.userData.todos
        searchLower == trim(toLowerCase(search.v))
        matches(todo) == includes(toLowerCase(todo.title), searchLower)
        filteredTodos ==
            IF Truthy(search) /\ search.t = "string"
            THEN SelectSeq(byFilter, matches)
            ELSE byFilter
    IN IF ~isArray(l.userData.todos) THEN InternalError(l.cache, dsk)
       ELSE Result(200, filteredTodos, l.cache, dsk, "none")

\* GET /todos/stats (server.js:162-187)
handleGetStats_saves(userId, cache, dsk) ==
    LET l == loadUserTodos(userId, cache, dsk)
        s == saveUserTodos(userId, l.userData.todos, l.userData.nextId, l.cache, dsk, "ok")
    IN Result(200, [total |-> 0], s.cache, s.disk, "none")

handleGetStats(userId, cache, dsk) ==
    LET l == loadUserTodos(userId, cache, dsk)
        todos == l.userData.todos
        isCompleted(todo) == todo.completed
        isPending(todo) == ~todo.completed
        isLow(todo) == todo.priority = JSString(LOW)
        isMedium(todo) == todo.priority = JSString(MEDIUM)
        isHigh(todo) == todo.priority = JSString(HIGH)
        completed == Len(SelectSeq(todos, isCompleted))
        total == Len(todos)
    IN IF ~isArray(todos) THEN InternalError(l.cache, dsk)
       ELSE Result(200,
              [total |-> total,
               completed |-> completed,
               pending |-> Len(SelectSeq(todos, isPending)),
               completionRate |-> completionRate(completed, total),
               priorityCounts |-> [low |-> Len(SelectSeq(todos, isLow)),
                                   medium |-> Len(SelectSeq(todos, isMedium)),
                                   high |-> Len(SelectSeq(todos, isHigh))]],
              l.cache, dsk, "none")

\* GET /todos/:id (server.js:190-209)
handleGetTodo(userId, param, cache, dsk) ==
    LET id == parseInt(param)
        l == loadUserTodos(userId, cache, dsk)
        index == findIndex(l.userData.todos, id)
    IN IF isNaN(id) THEN Result(400, Error("Invalid todo ID"), cache, dsk, "none")
       ELSE IF ~isArray(l.userData.todos) THEN InternalError(l.cache, dsk)
       ELSE IF index = -1
       THEN Result(404, Error("Todo not found"), l.cache, dsk, "none")
       ELSE Result(200, l.userData.todos[index + 1], l.cache, dsk, "none")

\* userData.todos.push(newTodo) (server.js:233)
push_unshift(todos, todo) == <<todo>> \o todos

push(todos, todo) == Append(todos, todo)

\* id: userData.nextId++ (server.js:226): the id taken and the counter after it.
allocate_noIncrement(userData) == [id |-> userData.nextId, nextId |-> userData.nextId]

allocate(userData) == [id |-> userData.nextId, nextId |-> userData.nextId + 1]

\* POST /todos (server.js:212-240)
handlePostTodos(userId, body, now, w, cache, dsk) ==
    LET valid == validateTodo(body)
        completed == IF body.completed = Undefined THEN JSBoolean(FALSE) ELSE body.completed
        priority == IF body.priority = Undefined THEN JSString(MEDIUM) ELSE body.priority
        l == loadUserTodos(userId, cache, dsk)
        a == allocate(l.userData)
        newTodo == [id |-> a.id,
                    title |-> trim(body.title.v),
                    completed |-> Truthy(completed),
                    priority |-> priority,
                    createdAt |-> now]
        userData == [todos |-> push(l.userData.todos, newTodo),
                     nextId |-> a.nextId]
    IN IF valid # "next" THEN Result(400, Error(valid), cache, dsk, "none")
       ELSE IF ~validatePriority(priority)
       THEN Result(400, Error("Priority must be one of: low, medium, high"), cache, dsk, "none")
       ELSE IF ~isArray(l.userData.todos)
       THEN InternalError(InPlace(l, userId, [l.userData EXCEPT !.nextId = a.nextId]), dsk)
       ELSE Saved(201, newTodo, l, userId, userData, dsk, w)

\* PUT /todos/:id (server.js:243-303)
handlePutTodo(userId, param, body, w, cache, dsk) ==
    LET id == parseInt(param)
        l == loadUserTodos(userId, cache, dsk)
        todoIndex == findIndex(l.userData.todos, id)
        old == l.userData.todos[todoIndex + 1]
        withTitle ==
            IF body.title # Undefined THEN [old EXCEPT !.title = trim(body.title.v)] ELSE old
        withCompleted ==
            IF body.completed # Undefined
            THEN [withTitle EXCEPT !.completed = Truthy(body.completed)]
            ELSE withTitle
        updated ==
            IF body.priority # Undefined
            THEN [withCompleted EXCEPT !.priority = body.priority]
            ELSE withCompleted
        userData == [l.userData EXCEPT !.todos[todoIndex + 1] = updated]
    IN IF isNaN(id) THEN Result(400, Error("Invalid todo ID"), cache, dsk, "none")
       ELSE IF ~isArray(l.userData.todos) THEN InternalError(l.cache, dsk)
       ELSE IF todoIndex = -1
       THEN Result(404, Error("Todo not found"), l.cache, dsk, "none")
       ELSE IF body.title # Undefined /\ body.title.t # "string"
       THEN Result(400, Error("Title must be a string"), l.cache, dsk, "none")
       ELSE IF body.title # Undefined /\ Len(trim(body.title.v)) = 0
       THEN Result(400, Error("Title cannot be empty"), l.cache, dsk, "none")
       ELSE IF body.title # Undefined /\ Len(body.title.v) > MaxTitleLength
       THEN Result(400, Error("Title must be less than 500 characters"), l.cache, dsk, "none")
       ELSE IF body.priority # Undefined /\ ~validatePriority(body.priority)
       THEN Result(400, Error("Priority must be one of: low, medium, high"), l.cache, dsk, "none")
       ELSE Saved(200, updated, l, userId, userData, dsk, w)

\* DELETE /todos/:id (server.js:306-331)
handleDeleteTodo(userId, param, w, cache, dsk) ==
    LET id == parseInt(param)
        l == loadUserTodos(userId, cache, dsk)
        todoIndex == findIndex(l.userData.todos, id)
        deletedTodo == l.userData.todos[todoIndex + 1]
        userData == [l.userData EXCEPT !.todos = splice(@, todoIndex)]
    IN IF isNaN(id) THEN Result(400, Error("Invalid todo ID"), cache, dsk, "none")
       ELSE IF ~isArray(l.userData.todos) THEN InternalError(l.cache, dsk)
       ELSE IF todoIndex = -1
       THEN Result(404, Error("Todo not found"), l.cache, dsk, "none")
       ELSE Saved(200, [message |-> "Todo deleted successfully", todo |-> deletedTodo],
                  l, userId, userData, dsk, w)

(***************************************************************************)
(* State after construction: nothing cached; every file is absent or is a  *)
(* truncated text that a write of an earlier process left behind.          *)
(***************************************************************************)
EmptyMap == [u \in {} |-> Undefined]

NoTask == [pc |-> "idle"]

NoRead == [userId |-> "none"]

\* The {todos, nextId} a request for userId resolves to.
resolve(userId, cache, dsk) == loadUserTodos(userId, cache, dsk).userData

\* The page as it is loaded (part_000:11-12, 431) and the single-user variant
\* as it is constructed (server.js:381-382).
NoTimer == [set |-> FALSE]

InitOutside ==
    /\ clock = 0
    /\ timeout = NoTimer
    /\ events = <<>>
    /\ calls = <<>>
    /\ currentFilter = JSString(<<"a", "l", "l">>)
    /\ searchQuery = JSString(<<>>)
    /\ inFlight = {}
    /\ rendered = <<>>
    /\ single = [todos |-> <<>>, nextId |-> 1, file |-> NoFile]

Init ==
    /\ InitOutside
    /\ userDataCache = EmptyMap
    /\ disk \in [Files -> {NoFile, TruncatedText}]
    /\ returned = [u \in Users |-> <<>>]
    /\ deleted = [u \in Users |-> {}]
    /\ lastWrite = [u \in Users |-> "none"]
    /\ everReturned = [u \in Users |-> {}]
    /\ creates = 0
    /\ task = NoTask
    /\ seen = NoRead

\* The state after a handler that returned r for a request of userId.
Apply(userId, r) ==
    /\ userDataCache' = r.cache
    /\ disk' = r.disk
    /\ lastWrite' = IF r.write = "none" THEN lastWrite
                    ELSE [lastWrite EXCEPT ![userId] = outcome(r.write)]
    /\ task' = NoTask
    /\ seen' = NoRead
    /\ UNCHANGED outsideServer

\* The outcomes the durable write of a handler can have: the write outcome is
\* an input of the request only when the handler reaches saveUserTodos.
Outcomes(r) == IF r.write = "none" THEN {"ok"} ELSE WriteOutcomes

GetTodos(userId, filterParam, search) ==
    /\ Apply(userId, handleGetTodos(userId, filterParam, search, userDataCache, disk))
    /\ UNCHANGED <<returned, deleted, everReturned, creates>>

GetStats(userId) ==
    /\ Apply(userId, handleGetStats(userId, userDataCache, disk))
    /\ UNCHANGED <<returned, deleted, everReturned, creates>>

GetTodo(userId, param) ==
    /\ Apply(userId, handleGetTodo(userId, param, userDataCache, disk))
    /\ UNCHANGED <<returned, deleted, everReturned, creates>>

PostTodos(userId, body, now) ==
    \E w \in Outcomes(handlePostTodos(userId, body, now, "ok", userDataCache, disk)) :
    LET r == handlePostTodos(userId, body, now, w, userDataCache, disk) IN
    /\ r.status = 201 => creates < MaxCreates
    /\ Apply(userId, r)
    /\ IF r.status = 201
       THEN /\ returned' = [returned EXCEPT ![userId] = Append(@, r.body.id)]
            /\ everReturned' = [everReturned EXCEPT ![userId] = @ \cup {r.body.id}]
            /\ creates' = creates + 1
       ELSE UNCHANGED <<returned, everReturned, creates>>
    /\ UNCHANGED deleted

PutTodo(userId, param, body) ==
    \E w \in Outcomes(handlePutTodo(userId, param, body, "ok", userDataCache, disk)) :
    /\ Apply(userId, handlePutTodo(userId, param, body, w, userDataCache, disk))
    /\ UNCHANGED <<returned, deleted, everReturned, creates>>

DeleteTodo(userId, param) ==
    \E w \in Outcomes(handleDeleteTodo(userId, param, "ok", userDataCache, disk)) :
    LET r == handleDeleteTodo(userId, param, w, userDataCache, disk) IN
    /\ Apply(userId, r)
    /\ deleted' = IF r.status = 200
                  THEN [deleted EXCEPT ![userId] = @ \cup {r.body.todo.id}]
                  ELSE deleted
    /\ UNCHANGED <<returned, everReturned, creates>>

(***************************************************************************)
(* The process stops and a new one starts: the cache is gone, the files    *)
(* stay (server.js:21 runs again).                                         *)
(***************************************************************************)
Restart ==
    /\ userDataCache' = EmptyMap
    /\ returned' = [u \in Users |-> <<>>]
    /\ deleted' = [u \in Users |-> {}]
    /\ lastWrite' = [u \in Users |-> "none"]
    /\ task' = NoTask
    /\ seen' = NoRead
    /\ UNCHANGED <<disk, everReturned, creates>>
    /\ UNCHANGED outsideServer

\* The state a read leaves does not depend on its filter, search or id (they
\* shape the response only), so the reads are taken with one query and with
\* one numeric and one non-numeric id; the properties about responses range
\* over FilterInputs, SearchInputs and IdParams.
Next ==
    \/ \E u \in Users : GetTodos(u, Undefined, Undefined)
    \/ \E u \in Users : GetStats(u)
    \/ \E u \in Users, p \in {[digits |-> FALSE], [digits |-> TRUE, v |-> 0]} : GetTodo(u, p)
    \/ \E u \in Users, b \in CreateBodies, t \in Times : PostTodos(u, b, t)
    \/ \E u \in Users, p \in IdParams, b \in UpdateBodies : PutTodo(u, p, b)
    \/ \E u \in Users, p \in IdParams : DeleteTodo(u, p)
    \/ Restart

Spec == Init /\ [][Next]_vars

\* What list, get and stats answer for userId in the state (cache, dsk).
Observable(userId, cache, dsk) ==
    [list |-> handleGetTodos(userId, Undefined, Undefined, cache, dsk).body,
     get |-> [p \in IdParams |->
                 LET r == handleGetTodo(userId, p, cache, dsk)
                 IN [status |-> r.status, body |-> r.body]],
     stats |-> handleGetStats(userId, cache, dsk).body]

(***************************************************************************)
(* The update handler statement by statement (server.js:286-299), for the  *)
(* properties about requests in flight at the same time.  Every handler is *)
(* a synchronous function (no await, no callback: server.js:134-331), so   *)
(* Node's event loop calls a handler only when no other handler is on the  *)
(* call stack.                                                             *)
(***************************************************************************)
eventLoopIdle_readsPreempt(kind) == task = NoTask \/ kind = "read"

eventLoopIdle(kind) == task = NoTask

\* PUT /todos/:id up to line 284: the checks passed, the todo is found and
\* the handler is about to write the fields of userData.todos[todoIndex].
PutBegin(userId, param, body) ==
    LET l == loadUserTodos(userId, userDataCache, disk)
        whole(w) == handlePutTodo(userId, param, body, w, userDataCache, disk)
    IN /\ eventLoopIdle("mutation")
       /\ whole("ok").write # "none"
       /\ task' = [pc |-> "title",
                   userId |-> userId,
                   todoIndex |-> findIndex(l.userData.todos, parseInt(param)),
                   body |-> body,
                   userData |-> l.userData,
                   cached |-> l.cached,
                   views |-> {Observable(userId, l.cache, disk)} \cup
                             {Observable(userId, whole(w).cache, whole(w).disk) :
                                 w \in WriteOutcomes}]
       /\ userDataCache' = l.cache
       /\ seen' = NoRead
       /\ UNCHANGED <<disk, returned, deleted, lastWrite, everReturned, creates>>
    /\ UNCHANGED outsideServer

\* The todos of the running handler after the statement at task.pc.
written ==
    LET i == task.todoIndex + 1
        todos == task.userData.todos
    IN CASE task.pc = "title" ->
              IF task.body.title # Undefined
              THEN [todos EXCEPT ![i].title = trim(task.body.title.v)] ELSE todos
         [] task.pc = "completed" ->
              IF task.body.completed # Undefined
              THEN [todos EXCEPT ![i].completed = Truthy(task.body.completed)] ELSE todos
         [] task.pc = "priority" ->
              IF task.body.priority # Undefined
              THEN [todos EXCEPT ![i].priority = task.body.priority] ELSE todos
         [] OTHER -> todos

nextStatement(pc) ==
    CASE pc = "title" -> "completed"
      [] pc = "completed" -> "priority"
      [] pc = "priority" -> "save"

\* One statement of the running update: a field write (lines 286-296), made
\* in place in the object loadUserTodos returned, or the save and the
\* response (lines 298-299).
PutStep ==
    /\ task # NoTask
    /\ IF task.pc # "save"
       THEN LET userData == [task.userData EXCEPT !.todos = written] IN
            /\ task' = [task EXCEPT !.pc = nextStatement(task.pc), !.userData = userData]
            /\ userDataCache' = IF task.cached
                                THEN [userDataCache EXCEPT ![task.userId] = userData]
                                ELSE userDataCache
            /\ UNCHANGED <<disk, lastWrite>>
       ELSE \E w \in WriteOutcomes :
            LET s == saveUserTodos(task.userId, task.userData.todos, task.userData.nextId,
                                   userDataCache, disk, w) IN
            /\ task' = NoTask
            /\ userDataCache' = s.cache
            /\ disk' = s.disk
            /\ lastWrite' = [lastWrite EXCEPT ![task.userId] = outcome(w)]
    /\ seen' = NoRead
    /\ UNCHANGED <<returned, deleted, everReturned, creates>>
    /\ UNCHANGED outsideServer

\* A list, a get of every id and a stats request of userId, handled at once
\* (server.js:134-209).  seen keeps what they answered and the answers that
\* are computed from a state before or after a whole mutation.
Read(userId) ==
    /\ eventLoopIdle("read")
    /\ seen' = [userId |-> userId,
                view |-> Observable(userId, userDataCache, disk),
                whole |-> IF task # NoTask /\ task.userId = userId
                          THEN task.views
                          ELSE {Observable(userId, userDataCache, disk)},
                during |-> task.pc]
    /\ userDataCache' = loadUserTodos(userId, userDataCache, disk).cache
    /\ UNCHANGED <<disk, returned, deleted, lastWrite, everReturned, creates, task>>
    /\ UNCHANGED outsideServer

SteppedPostTodos(userId, body, now) ==
    /\ eventLoopIdle("mutation")
    /\ PostTodos(userId, body, now)
    /\ creates' <= MaxSteppedCreates

SteppedDeleteTodo(userId, param) ==
    /\ eventLoopIdle("mutation")
    /\ DeleteTodo(userId, param)

SteppedRestart ==
    /\ eventLoopIdle("mutation")
    /\ Restart

NextSteps ==
    \/ \E u \in Users, b \in CreateBodies, t \in Times : SteppedPostTodos(u, b, t)
    \/ \E u \in Users, p \in IdParams, b \in UpdateBodies : PutBegin(u, p, b)
    \/ PutStep
    \/ \E u \in Users, p \in IdParams : SteppedDeleteTodo(u, p)
    \/ \E u \in Users : Read(u)
    \/ SteppedRestart

SpecSteps == Init /\ [][NextSteps]_vars

(***************************************************************************)
(* The server started on files that something else damaged: next to the    *)
(* absent and the truncated file, a file that holds JSON which is not the  *)
(* {todos, nextId} structure, here {"todos": 5} (server.js:46-51 take it   *)
(* as it is parsed).                                                       *)
(***************************************************************************)
MisshapenJSON == [kind |-> "json", todos |-> NotAnArray, nextId |-> 0]

InitDamaged ==
    /\ InitOutside
    /\ userDataCache = EmptyMap
    /\ disk \in [Files -> {NoFile, TruncatedText, MisshapenJSON}]
    /\ returned = [u \in Users |-> <<>>]
    /\ deleted = [u \in Users |-> {}]
    /\ lastWrite = [u \in Users |-> "none"]
    /\ everReturned = [u \in Users |-> {}]
    /\ creates = 0
    /\ task = NoTask
    /\ seen = NoRead

\* A create on a todos value that is not an array advances nextId before it
\* throws (server.js:226, 233), so nextId is bounded with the creates.
NextDamaged ==
    /\ Next
    /\ creates' <= MaxDamagedCreates
    /\ \A u \in DOMAIN userDataCache' : userDataCache'[u].nextId <= MaxDamagedCreates + 1

SpecDamaged == InitDamaged /\ [][NextDamaged]_vars

(***************************************************************************)
(* Notions the properties are stated in.                                   *)
(***************************************************************************)
Range(seq) == {seq[i] : i \in 1..Len(seq)}

ids(todos) == {todos[i].id : i \in 1..Len(todos)}

distinctIds(todos) ==
    \A i, j \in 1..Len(todos) : i # j => todos[i].id # todos[j].id

\* The {todos, nextId} the next request of userId works on.
StateOf(userId) == resolve(userId, userDataCache, disk)

\* The cache entry of userId, "none" when the user is not cached.
Entry(userId, cache) ==
    IF userId \in DOMAIN cache
    THEN [present |-> TRUE, userData |-> cache[userId]]
    ELSE [present |-> FALSE]

\* The results of the create, update and delete requests userId can make in
\* the current state.
MutationResults(userId) ==
    {handlePostTodos(userId, b, t, w, userDataCache, disk) :
        b \in CreateBodies, t \in Times, w \in WriteOutcomes}
    \cup {handlePutTodo(userId, p, b, w, userDataCache, disk) :
        p \in IdParams, b \in UpdateBodies, w \in WriteOutcomes}
    \cup {handleDeleteTodo(userId, p, w, userDataCache, disk) :
        p \in IdParams, w \in WriteOutcomes}

\* A successful create of userId is handled in this step; the id it returned.
Created(userId) == Len(returned'[userId]) = Len(returned[userId]) + 1

createdId(userId) == returned'[userId][Len(returned'[userId])]

(***************************************************************************)
(* C1: within one process the ids that the successful creates of one user  *)
(* returned are strictly increasing in call order (hence pairwise          *)
(* distinct).                                                              *)
(***************************************************************************)
C1_IdsIncrease ==
    \A u \in Users : \A i, j \in 1..Len(returned[u]) :
        i < j => returned[u][i] < returned[u][j]

(***************************************************************************)
(* C2: in every state, the nextId of every user is strictly greater than   *)
(* every id in the user's collection and every id a create returned for    *)
(* the user since the process started.                                     *)
(***************************************************************************)
C2_NextIdAboveIds ==
    \A u \in Users :
        \A id \in ids(StateOf(u).todos) \cup Range(returned[u]) :
            StateOf(u).nextId > id

(***************************************************************************)
(* C3: in every state, no two todos of one user's collection have the same *)
(* id, in the cache entry and in the snapshot on disk.                     *)
(***************************************************************************)
C3_UniqueIds ==
    /\ \A u \in DOMAIN userDataCache : distinctIds(userDataCache[u].todos)
    /\ \A f \in Files : disk[f].kind = "json" => distinctIds(disk[f].todos)

\* A user with two todos in the cache entry and in the snapshot.
C3_Witness ==
    \E u \in DOMAIN userDataCache :
        /\ Len(userDataCache[u].todos) >= 2
        /\ disk[getUserDataFile(u)].kind = "json"
        /\ Len(disk[getUserDataFile(u)].todos) >= 2

(***************************************************************************)
(* C4: a create, update or delete request of user A leaves the cache entry *)
(* and the file of every other user B unchanged, and with them what list,  *)
(* get and stats answer for B.                                             *)
(***************************************************************************)
C4_Isolation ==
    \A b \in Users :
        LET before == Observable(b, userDataCache, disk) IN
        \A a \in Users \ {b} : \A r \in MutationResults(a) :
            /\ Entry(b, r.cache) = Entry(b, userDataCache)
            /\ r.disk[getUserDataFile(b)] = disk[getUserDataFile(b)]
            /\ Observable(b, r.cache, r.disk) = before

\* Two users that both have todos in the cache and a snapshot on disk.
C4_Witness ==
    \A u \in Users :
        /\ u \in DOMAIN userDataCache
        /\ Len(userDataCache[u].todos) > 0
        /\ disk[getUserDataFile(u)].kind = "json"

(***************************************************************************)
(* C5: a restart (cache dropped, files kept) leaves the todos and the      *)
(* nextId every user resolves to, and what get answers, as they were.      *)
(***************************************************************************)
RoundTrip(u) ==
    /\ resolve(u, userDataCache', disk') = StateOf(u)
    /\ Observable(u, userDataCache', disk').get = Observable(u, userDataCache, disk).get

C5_OriginalRoundTrip == [][Restart => \A u \in Users : RoundTrip(u)]_vars

\* C5 as amended: the round trip holds for every user whose most recent
\* mutation in the process had a durable write that succeeded, and for every
\* user the process did not mutate.
C5_RoundTrip ==
    [][Restart => \A u \in Users : lastWrite[u] \in {"ok", "none"} => RoundTrip(u)]_vars

\* After a restart, a user resolved from the snapshot an earlier process wrote.
C5_Witness ==
    \E u \in DOMAIN userDataCache :
        /\ lastWrite[u] = "none"
        /\ Len(userDataCache[u].todos) > 0
        /\ userDataCache[u].nextId > 1

(***************************************************************************)
(* C6: between two requests, the file of every user the process has        *)
(* mutated holds exactly the {todos, nextId} of the user's cache entry.    *)
(***************************************************************************)
InSync(u) ==
    /\ u \in DOMAIN userDataCache
    /\ disk[getUserDataFile(u)] =
          JSONstringify(userDataCache[u].todos, userDataCache[u].nextId)

C6_OriginalInSync == \A u \in Users : lastWrite[u] # "none" => InSync(u)

\* C6 as amended: the file equals the cache entry for every user whose most
\* recent mutation had a durable write that succeeded.
C6_InSync == \A u \in Users : lastWrite[u] = "ok" => InSync(u)

\* A user whose latest mutation was a delete with a successful write that
\* left a todo behind.
C6_Witness ==
    \E u \in Users :
        /\ lastWrite[u] = "ok"
        /\ deleted[u] # {}
        /\ InSync(u)
        /\ Len(userDataCache[u].todos) > 0

(***************************************************************************)
(* C7: the creates of one user, handled in any order and number, return    *)
(* pairwise distinct ids, and each of them advances the user's nextId by   *)
(* one, so that N creates leave nextId at its initial value plus N.        *)
(***************************************************************************)
C7_ConcurrentCreates ==
    [][~Restart => \A u \in Users :
         IF Created(u)
         THEN /\ createdId(u) \notin Range(returned[u])
              /\ resolve(u, userDataCache', disk').nextId = StateOf(u).nextId + 1
         ELSE resolve(u, userDataCache', disk').nextId = StateOf(u).nextId]_vars

numeric(id) == [digits |-> TRUE, v |-> id]

C9_DeleteIsFinal ==
    \A u \in Users : \A id \in deleted[u] :
        /\ handleGetTodo(u, numeric(id), userDataCache, disk).status = 404
        /\ \A b \in UpdateBodies, w \in WriteOutcomes :
              handlePutTodo(u, numeric(id), b, w, userDataCache, disk).status = 404
        /\ \A w \in WriteOutcomes :
              handleDeleteTodo(u, numeric(id), w, userDataCache, disk).status = 404
        /\ \A b \in CreateBodies, t \in Times, w \in WriteOutcomes :
              LET r == handlePostTodos(u, b, t, w, userDataCache, disk)
              IN r.status = 201 => r.body.id # id

\* A user that deleted a todo and still has another one.
C9_Witness ==
    \E u \in Users : deleted[u] # {} /\ Len(StateOf(u).todos) > 0

(***************************************************************************)
(* C10: across restarts, no create of user U returns an id that an earlier *)
(* successful create of U returned.                                        *)
(***************************************************************************)
C10_NoReuseAcrossRestarts ==
    [][\A u \in Users : Created(u) => createdId(u) \notin everReturned[u]]_vars

(***************************************************************************)
(* C11: a mutation whose durable write fails answers as it does when the   *)
(* write succeeds and stays applied: a get of the created or updated todo  *)
(* in the state after it returns the record of the response, and a get of  *)
(* a deleted todo answers 404, whatever the slot of the user held when the *)
(* user was first resolved.                                                *)
(***************************************************************************)
FailedWrites == WriteOutcomes \ {"ok"}

getAfter(userId, id, r) == handleGetTodo(userId, numeric(id), r.cache, r.disk)

C11_FailedWriteKeepsMutation ==
    \A u \in Users, w \in FailedWrites :
        /\ \A b \in CreateBodies, t \in Times :
              LET r == handlePostTodos(u, b, t, w, userDataCache, disk)
                  ok == handlePostTodos(u, b, t, "ok", userDataCache, disk)
              IN /\ r.status = ok.status /\ r.body = ok.body
                 /\ r.status = 201 =>
                       /\ getAfter(u, r.body.id, r).status = 200
                       /\ getAfter(u, r.body.id, r).body = r.body
        /\ \A p \in IdParams, b \in UpdateBodies :
              LET r == handlePutTodo(u, p, b, w, userDataCache, disk)
                  ok == handlePutTodo(u, p, b, "ok", userDataCache, disk)
              IN /\ r.status = ok.status /\ r.body = ok.body
                 /\ r.status = 200 =>
                       /\ getAfter(u, r.body.id, r).status = 200
                       /\ getAfter(u, r.body.id, r).body = r.body
        /\ \A p \in IdParams :
              LET r == handleDeleteTodo(u, p, w, userDataCache, disk)
                  ok == handleDeleteTodo(u, p, "ok", userDataCache, disk)
              IN /\ r.status = ok.status /\ r.body = ok.body
                 /\ r.status = 200 => getAfter(u, r.body.todo.id, r).status = 404

(***************************************************************************)
(* C12: for a user that is not cached and whose file holds something that  *)
(* is not a {todos, nextId} snapshot, every request answers as for a user  *)
(* without todos: list [], stats all zero, get, update and delete of any   *)
(* id 404, a valid create 201 with the new record; none answers 500.       *)
(***************************************************************************)
damaged(slot) ==
    \/ slot.kind = "partial"
    \/ slot.kind = "json" /\ ~isArray(slot.todos)

C12_DamagedSlotIsFresh ==
    \A u \in Users :
        u \notin DOMAIN userDataCache /\ damaged(disk[getUserDataFile(u)]) =>
            /\ LET r == handleGetTodos(u, Undefined, Undefined, userDataCache, disk)
               IN r.status = 200 /\ r.body = <<>>
            /\ LET r == handleGetStats(u, userDataCache, disk)
               IN r.status = 200 /\ r.body.total = 0
            /\ \A p \in IdParams : p.digits =>
                  /\ handleGetTodo(u, p, userDataCache, disk).status = 404
                  /\ \A b \in Patches, w \in WriteOutcomes :
                        handlePutTodo(u, p, b, w, userDataCache, disk).status = 404
                  /\ \A w \in WriteOutcomes :
                        handleDeleteTodo(u, p, w, userDataCache, disk).status = 404
            /\ \A b \in CreateBodies, t \in Times, w \in WriteOutcomes :
                  LET r == handlePostTodos(u, b, t, w, userDataCache, disk)
                  IN IF validateTodo(b) = "next" /\ validatePriority(b.priority)
                     THEN r.status = 201 /\ r.body.title = trim(b.title.v)
                     ELSE r.status = 400

(***************************************************************************)
(* C13: a request that resolved user U leaves U in the cache, so that no   *)
(* later request of the process reads U's slot again, whether the slot was *)
(* present, absent or corrupt.                                             *)
(***************************************************************************)
\* The results of the requests of userId that call loadUserTodos.
ResolvingResults(userId) ==
    {handleGetTodos(userId, Undefined, Undefined, userDataCache, disk),
     handleGetStats(userId, userDataCache, disk)}
    \cup {r \in MutationResults(userId)
             \cup {handleGetTodo(userId, p, userDataCache, disk) : p \in IdParams} :
            r.status \in {200, 201, 404}}

\* loadUserTodos goes to the slot of userId (server.js:44-47).
readsSlot(userId, cache) == userId \notin DOMAIN cache

C13_SlotReadOnce ==
    \A u \in Users : \A r \in ResolvingResults(u) : ~readsSlot(u, r.cache)

(***************************************************************************)
(* C14: every step that changes the file of a user leaves a complete       *)
(* snapshot in it, never a half-written one.                               *)
(***************************************************************************)
C14_AtomicReplace ==
    [][\A f \in Files : disk'[f] # disk[f] => disk'[f].kind = "json"]_vars

(***************************************************************************)
(* C15: a user that is not cached and whose slot is absent or corrupt      *)
(* resolves to todos = [] and nextId = 1, and the first create for the     *)
(* user returns id 1.                                                      *)
(***************************************************************************)
C15_SeedIsOne ==
    \A u \in Users :
        u \notin DOMAIN userDataCache /\ disk[getUserDataFile(u)].kind # "json" =>
            /\ StateOf(u) = [todos |-> <<>>, nextId |-> 1]
            /\ \A b \in CreateBodies, t \in Times, w \in WriteOutcomes :
                  LET r == handlePostTodos(u, b, t, w, userDataCache, disk)
                  IN r.status = 201 => r.body.id = 1

(***************************************************************************)
(* C16: every id a successful create returned is truthy (not 0).           *)
(***************************************************************************)
C16_CreatedIdTruthy ==
    \A u \in Users : \A i \in 1..Len(returned[u]) :
        Truthy(JSNumber(returned[u][i]))

(***************************************************************************)
(* C17: a create that answers 201 returns a record whose id is the user's  *)
(* nextId before the call; after it the user's nextId is one more and the  *)
(* user's todos are the todos before the call followed by the returned     *)
(* record; completed is false and priority is medium when the body has     *)
(* none.                                                                   *)
(***************************************************************************)
C17_CreateEffect ==
    \A u \in Users, b \in CreateBodies, t \in Times, w \in WriteOutcomes :
        LET r == handlePostTodos(u, b, t, w, userDataCache, disk)
            post == resolve(u, r.cache, r.disk)
        IN r.status = 201 =>
              /\ r.body.id = StateOf(u).nextId
              /\ post.nextId = StateOf(u).nextId + 1
              /\ post.todos = Append(StateOf(u).todos, r.body)
              /\ b.completed = Undefined => r.body.completed = FALSE
              /\ b.priority = Undefined => r.body.priority = JSString(MEDIUM)

(***************************************************************************)
(* C18: an update that answers 200 sets, in the record with the id, the    *)
(* fields of title (trimmed), completed and priority that the patch has,   *)
(* keeps the record's other fields, its id and createdAt, every other      *)
(* record, the order and nextId, and returns the record as it is after it. *)
(***************************************************************************)
\* The position in todos of the record with the id.
position(todos, id) == CHOOSE i \in 1..Len(todos) : todos[i].id = id

patched(old, patch) ==
    [id |-> old.id,
     createdAt |-> old.createdAt,
     title |-> IF patch.title = Undefined THEN old.title ELSE <<"b">>,
     completed |-> IF patch.completed = Undefined THEN old.completed
                   ELSE patch.completed.v,
     priority |-> IF patch.priority = Undefined THEN old.priority ELSE patch.priority]

C18_UpdateEffect ==
    \A u \in Users, p \in IdParams :
        LET pre == StateOf(u) IN
        IF p.digits /\ p.v \in ids(pre.todos)
        THEN LET i == position(pre.todos, p.v) IN
             \A b \in Patches :
                 LET expected == [pre.todos EXCEPT ![i] = patched(pre.todos[i], b)] IN
                 \A w \in WriteOutcomes :
                     LET r == handlePutTodo(u, p, b, w, userDataCache, disk)
                         post == resolve(u, r.cache, r.disk)
                     IN r.status = 200 =>
                           /\ post.nextId = pre.nextId
                           /\ post.todos = expected
                           /\ r.body = expected[i]
        ELSE \A b \in Patches :
                 handlePutTodo(u, p, b, "ok", userDataCache, disk).status # 200

\* A user with two todos of which one was updated (title b, completed) and
\* the other is as it was created.
C18_Witness ==
    \E u \in DOMAIN userDataCache :
        /\ Len(userDataCache[u].todos) = 2
        /\ \E i, j \in 1..2 :
              /\ userDataCache[u].todos[i].title = <<"b">>
              /\ userDataCache[u].todos[i].completed
              /\ userDataCache[u].todos[j].title = <<"A">>
              /\ ~userDataCache[u].todos[j].completed

(***************************************************************************)
(* C19: a delete that answers 200 removes the record with the id and no    *)
(* other, keeps the other records as they were and in their order, keeps   *)
(* nextId, and returns the removed record.                                 *)
(***************************************************************************)
without(todos, id) ==
    LET keep(todo) == todo.id # id IN SelectSeq(todos, keep)

C19_DeleteEffect ==
    \A u \in Users, p \in IdParams, w \in WriteOutcomes :
        LET r == handleDeleteTodo(u, p, w, userDataCache, disk)
            pre == StateOf(u)
            post == resolve(u, r.cache, r.disk)
        IN r.status = 200 =>
              /\ post.nextId = pre.nextId
              /\ post.todos = without(pre.todos, p.v)
              /\ Len(post.todos) = Len(pre.todos) - 1
              /\ r.body.todo = pre.todos[position(pre.todos, p.v)]

\* A user whose first todo was deleted and whose second todo is left.
C19_Witness ==
    \E u \in Users :
        /\ Len(StateOf(u).todos) = 1
        /\ \E id \in deleted[u] : StateOf(u).todos[1].id > id

(***************************************************************************)
(* C20: get, update and delete of an id that is not in the user's todos    *)
(* answer 404, write nothing to disk and leave the user's todos and nextId *)
(* as they were.                                                           *)
(***************************************************************************)
\* r answers 404 to a request of userId and changes nothing.
notFound(userId, r) ==
    /\ r.status = 404
    /\ r.write = "none"
    /\ r.disk = disk
    /\ resolve(userId, r.cache, r.disk) = StateOf(userId)

C20_NotFound ==
    \A u \in Users, p \in IdParams :
        p.digits /\ p.v \notin ids(StateOf(u).todos) =>
            /\ notFound(u, handleGetTodo(u, p, userDataCache, disk))
            /\ \A w \in WriteOutcomes :
                  /\ notFound(u, handleDeleteTodo(u, p, w, userDataCache, disk))
                  /\ \A b \in UpdateBodies :
                        notFound(u, handlePutTodo(u, p, b, w, userDataCache, disk))

\* A user with one todo and an id that is not the todo's.
C20_Witness ==
    \E u \in DOMAIN userDataCache, p \in IdParams :
        /\ Len(userDataCache[u].todos) = 1
        /\ p.digits /\ p.v \notin ids(userDataCache[u].todos)
        /\ handleGetTodo(u, p, userDataCache, disk).status = 404

(***************************************************************************)
(* Requests whose bodies carry any JSON value as title and as priority:    *)
(* the same handlers, taken with the bodies below (server.js:212-303).     *)
(***************************************************************************)
MaxBodyCreates == 1     \* successful creates explored with these bodies

\* "a" repeated n times
Repeated(n) == [i \in 1..n |-> "a"]

\* Titles validateTodo lets pass: padded ones and one of exactly 500 characters.
AcceptedTitles ==
    { JSString(<<" ", "A", " ">>),
      JSString(<<"\t", "A">>),
      JSString(Repeated(MaxTitleLength)) }

\* Titles that are missing, not a string, empty, blank or too long.
RejectedTitles ==
    { Undefined, Null, JSNumber(5), JSString(<<>>), JSString(<<" ", "\t">>),
      JSString(Repeated(MaxTitleLength + 1)) }

\* Priority values of a body that are none of "low", "medium", "high".
OtherPriorities ==
    { JSString(<<"x">>), Null, JSString(<<>>), JSNumber(0), JSBoolean(FALSE) }

BodyCreates ==
    { Body(JSString(<<" ", "A", " ">>), Undefined, Undefined),
      Body(JSString(Repeated(MaxTitleLength)), JSBoolean(TRUE), JSString(LOW)),
      Body(JSString(<<"\t", "A">>), Undefined, Null),
      Body(JSString(<<" ", "\t">>), Undefined, Undefined),
      Body(JSString(<<"A">>), Undefined, JSString(<<"x">>)) }

BodyPatches ==
    { Body(JSString(<<" ", "b", " ">>), JSBoolean(TRUE), Undefined),
      Body(Undefined, Undefined, JSString(HIGH)),
      Body(Undefined, Undefined, Null),
      Body(JSString(<<" ">>), JSBoolean(TRUE), Undefined),
      Body(JSString(<<"b">>), JSBoolean(TRUE), JSString(<<"x">>)) }

\* The bodies are sent by one user; the other one sends nothing.
NextBodies ==
    \/ GetStats("user_0001")
    \/ \E b \in BodyCreates, t \in Times :
         PostTodos("user_0001", b, t) /\ creates' <= MaxBodyCreates
    \/ \E p \in IdParams, b \in BodyPatches : PutTodo("user_0001", p, b)
    \/ Restart

SpecBodies == Init /\ [][NextBodies]_vars

\* The outcome of a create of userId with body in the current state changed
\* nothing: no todo, no id taken, no file written.
changedNothing(userId, r) ==
    /\ r.write = "none"
    /\ r.disk = disk
    /\ resolve(userId, r.cache, r.disk) = StateOf(userId)

\* C21: a create whose title is missing, not a string, empty, blank or longer
\* than 500 characters, or whose priority is none of low, medium, high, is
\* answered 400 and adds no todo, takes no id and writes no file; a create
\* with a title of exactly 500 characters is accepted.
C21_CreateRejected ==
    \A u \in Users, t \in Times :
        /\ \A title \in RejectedTitles, priority \in validPriorities \cup {Undefined} :
             LET r == handlePostTodos(u, Body(title, Undefined, priority), t, "ok",
                                      userDataCache, disk)
             IN r.status = 400 /\ changedNothing(u, r)
        /\ \A title \in AcceptedTitles, priority \in OtherPriorities :
             LET r == handlePostTodos(u, Body(title, Undefined, priority), t, "ok",
                                      userDataCache, disk)
             IN r.status = 400 /\ changedNothing(u, r)
        /\ handlePostTodos(u, Body(JSString(Repeated(MaxTitleLength)), Undefined, Undefined),
                           t, "ok", userDataCache, disk).status = 201

\* The title with the whitespace before its first and after its last other
\* character removed.
stripped(title) ==
    LET inked == {k \in 1..Len(title) : title[k] \notin Whitespace}
        first == CHOOSE k \in inked : \A j \in inked : k <= j
        last == CHOOSE k \in inked : \A j \in inked : j <= k
    IN IF inked = {} THEN <<>> ELSE SubSeq(title, first, last)

wellFormedTitle(title) ==
    /\ title # <<>>
    /\ Len(title) <= MaxTitleLength
    /\ title[1] \notin Whitespace
    /\ title[Len(title)] \notin Whitespace

PaddedTitles ==
    { <<" ", "A", " ">>, <<"\t", "A">>, <<"b", "\t", " ">>,
      <<" ", "b", " ", "A", "\t">>, <<"A">> }

\* C22: a successful create or update that supplies a title stores and
\* returns that title without its leading and trailing whitespace, on create
\* and on update alike; every stored title is non-empty, at most 500
\* characters long and neither starts nor ends with whitespace.
C22_TitlesTrimmed ==
    \A u \in Users :
        /\ \A i \in 1..Len(StateOf(u).todos) : wellFormedTitle(StateOf(u).todos[i].title)
        /\ LET slot == disk[getUserDataFile(u)] IN
           slot.kind = "json" =>
               \A i \in 1..Len(slot.todos) : wellFormedTitle(slot.todos[i].title)
        /\ \A title \in PaddedTitles :
             /\ \A t \in Times :
                  LET r == handlePostTodos(u, Body(JSString(title), Undefined, Undefined),
                                           t, "ok", userDataCache, disk)
                      after == resolve(u, r.cache, r.disk).todos
                  IN /\ r.status = 201
                     /\ r.body.title = stripped(title)
                     /\ after[Len(after)].title = stripped(title)
             /\ \A p \in IdParams :
                  LET r == handlePutTodo(u, p, Body(JSString(title), Undefined, Undefined),
                                         "ok", userDataCache, disk)
                      after == resolve(u, r.cache, r.disk).todos
                  IN p.digits /\ r.status # 404 =>
                       /\ r.status = 200
                       /\ r.body.title = stripped(title)
                       /\ after[position(after, p.v)].title = stripped(title)

\* A stored title that an update with the padded title " b " left.
C22_Witness ==
    \E u \in Users : \E i \in 1..Len(StateOf(u).todos) :
        StateOf(u).todos[i].title = <<"b">>

\* The three counts of priorityCounts in the stats answer, added up.
countedPriorities(stats) ==
    stats.priorityCounts.low + stats.priorityCounts.medium + stats.priorityCounts.high

\* C23: every stored todo has one of the priorities low, medium, high,
\* whatever priorities the create and update requests carried, and the three
\* priorityCounts of stats add up to total.
C23_PrioritiesValid ==
    \A u \in Users :
        /\ \A i \in 1..Len(StateOf(u).todos) :
             StateOf(u).todos[i].priority \in validPriorities
        /\ LET r == handleGetStats(u, userDataCache, disk)
           IN r.status = 200 /\ countedPriorities(r.body) = r.body.total

(***************************************************************************)
(* The read handlers on any stored collection: the process starts on the   *)
(* file that earlier creates, updates and writes of one user left, and     *)
(* answers list and stats requests (server.js:134-187).                    *)
(***************************************************************************)
MaxTodos == 3       \* todos of the stored collection

StoredTitles == {<<"A">>, <<"b", "A">>}

\* The collection of n todos created in turn by a user that had no file
\* (ids 0..n-1), with any title, completion and priority the updates can leave.
Collections ==
    UNION { { [i \in 1..n |-> [id |-> i - 1,
                               title |-> f[i].title,
                               completed |-> f[i].completed,
                               priority |-> f[i].priority,
                               createdAt |-> "2024-01-01T12:00:00.000Z"]] :
              f \in [1..n -> [title : StoredTitles, completed : BOOLEAN,
                              priority : validPriorities]] } :
            n \in 0..MaxTodos }

InitCollections ==
    /\ InitOutside
    /\ userDataCache = EmptyMap
    /\ \E c \in Collections :
         /\ disk = [f \in Files |->
                      IF f = getUserDataFile("user_0001") /\ c # <<>>
                      THEN JSONstringify(c, Len(c))
                      ELSE NoFile]
         /\ everReturned = [u \in Users |-> IF u = "user_0001" THEN ids(c) ELSE {}]
         /\ creates = Len(c)
    /\ returned = [u \in Users |-> <<>>]
    /\ deleted = [u \in Users |-> {}]
    /\ lastWrite = [u \in Users |-> "none"]
    /\ task = NoTask
    /\ seen = NoRead

NextCollections ==
    \/ \E f \in FilterInputs, q \in SearchInputs : GetTodos("user_0001", f, q)
    \/ GetStats("user_0001")
    \/ Restart

SpecCollections == InitCollections /\ [][NextCollections]_vars

\* The number of todos of the collection that satisfy P.
count(todos, P(_)) == Cardinality({i \in 1..Len(todos) : P(todos[i])})

\* rate is the whole number nearest to 100 * completed / total, the upper one
\* of two that are equally near.
nearest(rate, completed, total) ==
    /\ 2 * total * rate - total <= 200 * completed
    /\ 200 * completed < 2 * total * rate + total

\* C24: stats answers total = the number of the user's todos, completed and
\* pending = the numbers of those that are and are not completed,
\* priorityCounts = the number of each priority, and completionRate =
\* round(100 * completed / total), or 0 for an empty collection.
C24_Stats ==
    \A u \in Users :
        LET todos == StateOf(u).todos
            r == handleGetStats(u, userDataCache, disk)
            done(todo) == todo.completed
            open(todo) == ~todo.completed
            low(todo) == todo.priority = JSString(LOW)
            medium(todo) == todo.priority = JSString(MEDIUM)
            high(todo) == todo.priority = JSString(HIGH)
        IN /\ r.status = 200
           /\ r.body.total = Len(todos)
           /\ r.body.completed = count(todos, done)
           /\ r.body.pending = count(todos, open)
           /\ r.body.priorityCounts.low = count(todos, low)
           /\ r.body.priorityCounts.medium = count(todos, medium)
           /\ r.body.priorityCounts.high = count(todos, high)
           /\ IF Len(todos) > 0
              THEN nearest(r.body.completionRate, count(todos, done), Len(todos))
              ELSE r.body.completionRate = 0

\* Stats of three todos, two of them completed: the rate 66.67 is rounded to 67.
C24_Witness ==
    \E u \in Users :
        LET r == handleGetStats(u, userDataCache, disk)
        IN /\ u \in DOMAIN userDataCache
           /\ r.body.total = 3
           /\ r.body.completed = 2
           /\ r.body.completionRate = 67
           /\ r.body.priorityCounts.high = 1

\* The title, in lower case, holds the needle at some position.
holds(title, needle) ==
    \E k \in 1..(Len(title) + 1) :
        \A j \in 1..Len(needle) :
            /\ k + j - 1 <= Len(title)
            /\ toLowerCase(title)[k + j - 1] = needle[j]

Filters == FilterInputs \cup {JSString(<<"a", "l", "l">>)}

Searches == SearchInputs \cup {JSString(<<"B">>), JSString(<<" ">>), JSString(<<>>)}

\* C25: list answers, in stored order, exactly the todos that satisfy the
\* completion filter (completed, pending, or no restriction for an absent or
\* other value) and the search (the lower-cased title contains the trimmed
\* lower-cased search text; no restriction for an absent or empty search);
\* filtering and then searching gives what searching and then filtering gives.
C25_List ==
    \A u \in Users, f \in Filters, q \in Searches :
        LET todos == StateOf(u).todos
            r == handleGetTodos(u, f, q, userDataCache, disk)
            byFilter(todo) ==
                CASE f = JSString(<<"completed">>) -> todo.completed
                  [] f = JSString(<<"pending">>) -> ~todo.completed
                  [] OTHER -> TRUE
            bySearch(todo) ==
                q = Undefined \/ q.v = <<>>
                    \/ holds(todo.title, stripped(toLowerCase(q.v)))
            both(todo) == byFilter(todo) /\ bySearch(todo)
        IN /\ r.status = 200
           /\ r.body = SelectSeq(todos, both)
           /\ r.body = SelectSeq(SelectSeq(todos, bySearch), byFilter)
           /\ r.body = SelectSeq(SelectSeq(todos, byFilter), bySearch)

\* A list of the completed todos whose title contains "b" that keeps the first
\* and the third of three todos.
C25_Witness ==
    \E u \in Users :
        LET todos == StateOf(u).todos
            r == handleGetTodos(u, JSString(<<"completed">>), JSString(<<"B">>),
                                userDataCache, disk)
        IN /\ u \in DOMAIN userDataCache
           /\ Len(todos) = 3
           /\ r.body = <<todos[1], todos[3]>>
           /\ ~todos[2].completed

(***************************************************************************)
(* Requests with their headers: the middleware validateUserId in front of  *)
(* every /todos route (server.js:28-34, 81-98, 134-306), the requests of   *)
(* an API client that sets X-User-Id, and the requests the frontend        *)
(* builds (unnamed/part_000:93-160).                                       *)
(***************************************************************************)
MaxHeaderCreates == 1   \* successful creates explored with these requests

Letters ==
    {"a", "b", "c", "d", "e", "f", "g", "h", "i", "j", "k", "l", "m",
     "n", "o", "p", "q", "r", "s", "t", "u", "v", "w", "x", "y", "z"}

Capitals ==
    {"A", "B", "C", "D", "E", "F", "G", "H", "I", "J", "K", "L", "M",
     "N", "O", "P", "Q", "R", "S", "T", "U", "V", "W", "X", "Y", "Z"}

Digits == {"0", "1", "2", "3", "4", "5", "6", "7", "8", "9"}

\* [a-zA-Z0-9_-]
IdChars == Letters \cup Capitals \cup Digits \cup {"_", "-"}

MinIdLength == 8
MaxIdLength == 64

\* userId && typeof userId === "string" && /^[a-zA-Z0-9_-]{8,64}$/.test(userId)
isValidUserId_anyLength(userId) ==
    /\ Truthy(userId)
    /\ userId.t = "string"
    /\ \A k \in 1..Len(userId.v) : userId.v[k] \in IdChars

isValidUserId(userId) ==
    /\ Truthy(userId)
    /\ userId.t = "string"
    /\ Len(userId.v) >= MinIdLength
    /\ Len(userId.v) <= MaxIdLength
    /\ \A k \in 1..Len(userId.v) : userId.v[k] \in IdChars

\* req.headers[name]: undefined when the request has no such header.
header(req, name) ==
    IF name \in DOMAIN req.headers THEN req.headers[name] ELSE Undefined

\* validateUserId: next() is called, or the response is sent.
validateUserId(req) ==
    LET userId == header(req, "x-user-id") IN
    IF ~Truthy(userId)
    THEN [next |-> FALSE, status |-> 401,
          error |-> "User ID is required. Please provide X-User-Id header."]
    ELSE IF ~isValidUserId(userId)
    THEN [next |-> FALSE, status |-> 400, error |-> "Invalid User ID format"]
    ELSE [next |-> TRUE, userId |-> userId.v]

\* The characters of the ids of Users.
text(userId) ==
    IF userId = "user_0001"
    THEN <<"u", "s", "e", "r", "_", "0", "0", "0", "1">>
    ELSE <<"u", "s", "e", "r", "_", "0", "0", "0", "2">>

named(chars) == CHOOSE u \in Users : text(u) = chars

\* A /todos request through its route: validateUserId, then the handler
\* (validateTodo is the first step of handlePostTodos).
route(req, now, w, cache, dsk) ==
    LET v == validateUserId(req) IN
    IF ~v.next THEN Result(v.status, Error(v.error), cache, dsk, "none")
    ELSE LET userId == named(v.userId) IN
         CASE req.route = "GET /todos" ->
                handleGetTodos(userId, req.filter, req.search, cache, dsk)
           [] req.route = "GET /todos/stats" -> handleGetStats(userId, cache, dsk)
           [] req.route = "GET /todos/:id" -> handleGetTodo(userId, req.param, cache, dsk)
           [] req.route = "POST /todos" ->
                handlePostTodos(userId, req.body, now, w, cache, dsk)
           [] req.route = "PUT /todos/:id" ->
                handlePutTodo(userId, req.param, req.body, w, cache, dsk)
           [] req.route = "DELETE /todos/:id" ->
                handleDeleteTodo(userId, req.param, w, cache, dsk)

Request(path, headers, param, filterParam, search, body) ==
    [route |-> path, headers |-> headers, param |-> param,
     filter |-> filterParam, search |-> search, body |-> body]

NoParam == [digits |-> FALSE]
NoBody == Body(Undefined, Undefined, Undefined)
NoHeaders == [name \in {} |-> Undefined]

\* "Content-Type": "application/json"
ContentTypeJSON ==
    [name \in {"content-type"} |->
        JSString(<<"a", "p", "p", "l", "i", "c", "a", "t", "i", "o", "n", "/",
                   "j", "s", "o", "n">>)]

\* The API functions of the frontend (unnamed/part_000:93-160).
fetchTodos(filterParam, search) ==
    Request("GET /todos", NoHeaders, NoParam,
            IF Truthy(filterParam) /\ filterParam # JSString(<<"a", "l", "l">>)
            THEN filterParam ELSE Undefined,
            IF Truthy(search) THEN search ELSE Undefined,
            NoBody)

createTodo(title, priority) ==
    Request("POST /todos", ContentTypeJSON, NoParam, Undefined, Undefined,
            Body(title, Undefined, priority))

updateTodo(id, updates) ==
    Request("PUT /todos/:id", ContentTypeJSON, [digits |-> TRUE, v |-> id],
            Undefined, Undefined, updates)

deleteTodo(id) ==
    Request("DELETE /todos/:id", NoHeaders, [digits |-> TRUE, v |-> id],
            Undefined, Undefined, NoBody)

fetchStats ==
    Request("GET /todos/stats", NoHeaders, NoParam, Undefined, Undefined, NoBody)

FrontendRequests ==
    { fetchTodos(Undefined, Undefined),
      fetchTodos(JSString(<<"completed">>), JSString(<<"A">>)),
      createTodo(JSString(<<"A">>), JSString(MEDIUM)),
      updateTodo(0, Body(Undefined, JSBoolean(TRUE), Undefined)),
      deleteTodo(0),
      fetchStats }

\* The values of X-User-Id an API client sends: none, the empty one, too
\* short, too long, with a character outside the class, and the ids of Users.
UserIdHeaders ==
    { NoHeaders }
    \cup { [name \in {"x-user-id"} |-> JSString(chars)] :
             chars \in { <<>>,
                         <<"u", "s", "e", "r", "_", "0", "0">>,
                         Repeated(MaxIdLength + 1),
                         <<"u", "s", "e", "r", " ", "0", "0", "0", "1">>,
                         <<"u", "s", "e", "r", "_", "0", "0", "0", "!">> }
                       \cup {text(u) : u \in Users} }

\* The requests of an API client with the headers h.
ClientRequests(h) ==
    { Request("GET /todos", h, NoParam, Undefined, Undefined, NoBody),
      Request("GET /todos/stats", h, NoParam, Undefined, Undefined, NoBody),
      Request("GET /todos/:id", h, [digits |-> TRUE, v |-> 0], Undefined, Undefined, NoBody),
      Request("POST /todos", h, NoParam, Undefined, Undefined,
              Body(JSString(<<" ", "A", " ">>), Undefined, Undefined)),
      Request("PUT /todos/:id", h, [digits |-> TRUE, v |-> 0], Undefined, Undefined,
              Body(Undefined, JSBoolean(TRUE), Undefined)),
      Request("DELETE /todos/:id", h, [digits |-> TRUE, v |-> 0], Undefined, Undefined,
              NoBody) }

Requests == FrontendRequests \cup UNION {ClientRequests(h) : h \in UserIdHeaders}

\* The server answers the request req.
Send(req, now) ==
    \E w \in Outcomes(route(req, now, "ok", userDataCache, disk)) :
    LET r == route(req, now, w, userDataCache, disk)
        v == validateUserId(req)
    IN /\ r.status = 201 => creates < MaxHeaderCreates
       /\ userDataCache' = r.cache
       /\ disk' = r.disk
       /\ task' = NoTask
       /\ seen' = NoRead
       /\ lastWrite' = IF r.write = "none" THEN lastWrite
                       ELSE [lastWrite EXCEPT ![named(v.userId)] = outcome(r.write)]
       /\ IF r.status = 201
          THEN /\ returned' = [returned EXCEPT ![named(v.userId)] = Append(@, r.body.id)]
               /\ everReturned' = [everReturned EXCEPT ![named(v.userId)] = @ \cup {r.body.id}]
               /\ creates' = creates + 1
          ELSE UNCHANGED <<returned, everReturned, creates>>
       /\ deleted' = IF req.route = "DELETE /todos/:id" /\ r.status = 200
                     THEN [deleted EXCEPT ![named(v.userId)] = @ \cup {r.body.todo.id}]
                     ELSE deleted
       /\ UNCHANGED outsideServer

NextRequests ==
    \/ \E req \in Requests, t \in Times : Send(req, t)
    \/ Restart

SpecRequests == Init /\ [][NextRequests]_vars

\* 8 to 64 characters, each a letter, a digit, a hyphen or an underscore.
wellFormedId(chars) ==
    /\ Len(chars) \in 8..64
    /\ \A k \in 1..Len(chars) :
         chars[k] \in Letters \cup Capitals \cup Digits \cup {"-", "_"}

\* The request was answered with status and nothing was resolved, cached,
\* read or written for it.
turnedAway(req, status) ==
    /\ ~validateUserId(req).next
    /\ \A t \in Times, w \in WriteOutcomes :
         LET r == route(req, t, w, userDataCache, disk)
         IN /\ r.status = status
            /\ r.cache = userDataCache
            /\ r.disk = disk
            /\ r.write = "none"

C27_FrontendSendsUserId ==
    \A req \in FrontendRequests, t \in Times :
        /\ "x-user-id" \in DOMAIN req.headers
        /\ validateUserId(req).next
        /\ route(req, t, "ok", userDataCache, disk).status \notin {400, 401}

(***************************************************************************)
(* The server started on snapshots that parse and lack a key: {"todos":    *)
(* [...]} without nextId, {"nextId": 3} without todos, {} without both,    *)
(* next to a complete snapshot and to no file (server.js:45-54).           *)
(***************************************************************************)
MaxSnapshotCreates == 1     \* successful creates explored on these snapshots

KeptTodo ==
    [id |-> 1, title |-> <<"A">>, completed |-> FALSE, priority |-> JSString(MEDIUM),
     createdAt |-> "2024-01-01T12:00:00.000Z"]

Snapshots ==
    { NoFile,
      [kind |-> "json", todos |-> <<KeptTodo>>, nextId |-> NoNextId],
      [kind |-> "json", todos |-> NoTodos, nextId |-> 3],
      [kind |-> "json", todos |-> NoTodos, nextId |-> NoNextId],
      JSONstringify(<<KeptTodo>>, 2) }

InitSnapshots ==
    /\ InitOutside
    /\ userDataCache = EmptyMap
    /\ disk \in [Files -> Snapshots]
    /\ returned = [u \in Users |-> <<>>]
    /\ deleted = [u \in Users |-> {}]
    /\ lastWrite = [u \in Users |-> "none"]
    /\ everReturned = [u \in Users |-> {}]
    /\ creates = 0
    /\ task = NoTask
    /\ seen = NoRead

NextSnapshots ==
    \/ \E u \in Users : GetTodos(u, Undefined, Undefined)
    \/ \E u \in Users, b \in CreateBodies, t \in Times :
         PostTodos(u, b, t) /\ creates' <= MaxSnapshotCreates
    \/ \E u \in Users, p \in IdParams : DeleteTodo(u, p)
    \/ Restart

SpecSnapshots == InitSnapshots /\ [][NextSnapshots]_vars

\* C28: a snapshot that parses and has no nextId is resolved to its todos
\* and nextId 1; one that has no todos is resolved to an empty collection;
\* the resolved state is the one the cache then holds.
C28_MissingKeys ==
    \A u \in Users :
        LET slot == disk[getUserDataFile(u)]
            l == loadUserTodos(u, userDataCache, disk)
        IN u \notin DOMAIN userDataCache /\ slot.kind = "json" =>
             /\ slot.nextId = NoNextId => l.userData.nextId = 1
             /\ slot.nextId # NoNextId => l.userData.nextId = slot.nextId
             /\ slot.todos = NoTodos => l.userData.todos = <<>>
             /\ slot.todos # NoTodos => l.userData.todos = slot.todos
             /\ l.cache[u] = l.userData

\* A user resolved from the snapshot that has todos and no nextId, and one
\* resolved from the snapshot that has neither.
C28_Witness ==
    /\ disk["todos_user_0001.json"] = [kind |-> "json", todos |-> <<KeptTodo>>,
                                        nextId |-> NoNextId]
    /\ disk["todos_user_0002.json"] = [kind |-> "json", todos |-> NoTodos,
                                        nextId |-> NoNextId]
    /\ DOMAIN userDataCache = Users
    /\ userDataCache["user_0001"] = [todos |-> <<KeptTodo>>, nextId |-> 1]
    /\ userDataCache["user_0002"] = [todos |-> <<>>, nextId |-> 1]

\* Patches with a title that is not a string, is empty or blank, or is too
\* long, or with the priority "x"; their other fields are valid.
RejectedPatches ==
    { Body(title, JSBoolean(TRUE), JSString(HIGH)) :
        title \in RejectedTitles \ {Undefined} }
    \cup { Body(JSString(<<"b">>), JSBoolean(TRUE), JSString(<<"x">>)),
           Body(Undefined, JSBoolean(TRUE), JSString(<<"x">>)) }

\* C29: an update that is answered 400 (title not a string, empty after
\* trimming or longer than 500 characters, or invalid priority) changes no
\* field of the target todo, whatever valid fields the patch has besides,
\* and writes no file.
C29_RejectedUpdate ==
    \A u \in Users, p \in IdParams :
        /\ \A b \in RejectedPatches \cup BodyPatches \cup Patches :
             LET r == handlePutTodo(u, p, b, "ok", userDataCache, disk)
             IN r.status = 400 => changedNothing(u, r)
        /\ p.digits /\ p.v \in ids(StateOf(u).todos) =>
             \A b \in RejectedPatches :
                 handlePutTodo(u, p, b, "ok", userDataCache, disk).status = 400

\* A pending todo with priority medium, for which a patch that sets completed
\* and priority high next to a blank title is answered 400.
C29_Witness ==
    \E u \in Users : \E i \in 1..Len(StateOf(u).todos) :
        LET todo == StateOf(u).todos[i] IN
        /\ ~todo.completed
        /\ todo.priority = JSString(MEDIUM)
        /\ handlePutTodo(u, [digits |-> TRUE, v |-> todo.id],
                         Body(JSString(<<" ", "\t">>), JSBoolean(TRUE), JSString(HIGH)),
                         "ok", userDataCache, disk).status = 400

\* C30: once a mutation of U has had a durable write that succeeded, U's file
\* holds U's whole in-memory state, the effects of the earlier mutations whose
\* write failed included: the file equals the cache entry, and it holds a
\* todo for every create this process answered for U, less the deletes.
C30_WriteCatchesUp ==
    \A u \in Users :
        lastWrite[u] = "ok" =>
            /\ InSync(u)
            /\ Len(disk[getUserDataFile(u)].todos)
                   >= Len(returned[u]) - Cardinality(deleted[u])

\* The read answered with r for userId left every file as it was, wrote
\* nothing, changed the cache at most by the entry of userId that was not
\* there, and left what every user resolves to as it was.
readOnly(userId, r) ==
    /\ r.write = "none"
    /\ r.disk = disk
    /\ \/ r.cache = userDataCache
       \/ /\ userId \notin DOMAIN userDataCache
          /\ DOMAIN r.cache = DOMAIN userDataCache \cup {userId}
          /\ \A v \in DOMAIN userDataCache : r.cache[v] = userDataCache[v]
    /\ \A v \in Users : resolve(v, r.cache, r.disk) = resolve(v, userDataCache, disk)

\* C31: list, get and stats write and create no file and change no user's
\* todos or nextId; all they can change is to add the cache entry of the
\* requesting user on its first access.
C31_ReadsChangeNothing ==
    \A u \in Users :
        /\ \A f \in FilterInputs, q \in SearchInputs :
             readOnly(u, handleGetTodos(u, f, q, userDataCache, disk))
        /\ readOnly(u, handleGetStats(u, userDataCache, disk))
        /\ \A p \in IdParams : readOnly(u, handleGetTodo(u, p, userDataCache, disk))

\* A user with a written file and no cache entry, next to a cached one: the
\* list request of the first adds its entry.
C31_Witness ==
    \E u \in Users :
        /\ u \notin DOMAIN userDataCache
        /\ disk[getUserDataFile(u)].kind = "json"
        /\ DOMAIN userDataCache # {}
        /\ handleGetTodos(u, Undefined, Undefined, userDataCache, disk).cache
               # userDataCache

\* The ids of the todos grow from each element to the next.
increasingIds(todos) ==
    \A i \in 1..(Len(todos) - 1) : todos[i].id < todos[i + 1].id

\* C32: every user's stored todos are in strictly increasing order of id, in
\* the cache and in the file, so the unfiltered list answers them in the
\* order they were created in.
C32_StoredInIdOrder ==
    \A u \in Users :
        /\ u \in DOMAIN userDataCache => increasingIds(userDataCache[u].todos)
        /\ disk[getUserDataFile(u)].kind = "json" =>
               increasingIds(disk[getUserDataFile(u)].todos)
        /\ LET r == handleGetTodos(u, Undefined, Undefined, userDataCache, disk)
           IN r.status = 200 /\ increasingIds(r.body)

\* A user with two stored todos, the first of which was created first.
C32_Witness ==
    \E u \in DOMAIN userDataCache :
        /\ Len(userDataCache[u].todos) = 2
        /\ Len(returned[u]) = 2
        /\ userDataCache[u].todos[1].id = returned[u][1]
        /\ userDataCache[u].todos[2].id = returned[u][2]

(***************************************************************************)
(* The single-user variant of the server (server.js:367-670): one todos    *)
(* array and one nextId, no X-User-Id.  Its list handler answers the list  *)
(* requests of the frontend.                                               *)
(***************************************************************************)
\* GET /todos of the single-user variant (server.js:446-470)
singleGetTodos(filterParam, search, state) ==
    LET isCompleted(todo) == todo.completed
        isPending(todo) == ~todo.completed
        byFilter ==
            IF filterParam = JSString(<<"completed">>)
            THEN SelectSeq(state.todos, isCompleted)
            ELSE IF filterParam = JSString(<<"pending">>)
            THEN SelectSeq(state.todos, isPending)
            ELSE state.todos
        searchLower == trim(toLowerCase(search.v))
        matches(todo) == includes(toLowerCase(todo.title), searchLower)
        filteredTodos ==
            IF Truthy(search) /\ search.t = "string"
            THEN SelectSeq(byFilter, matches)
            ELSE byFilter
    IN [status |-> 200, body |-> filteredTodos, state |-> state]

(***************************************************************************)
(* The page of the frontend (unnamed/part_000): the debounced search box,  *)
(* the filter buttons, loadTodos and renderTodos.                          *)
(***************************************************************************)
MaxTicks == 8       \* the clock is explored up to MaxTicks * TickMs milliseconds
MaxEvents == 3      \* input events of the search box explored

TickMs == 100

\* debounce(handleSearch, 300) (part_000:61)
Wait == 300

SearchValues == {<<"a">>, <<"a", "b", " ">>}

\* setTimeout(later, wait) at the time now: the timer that runs later, which
\* calls func with args, once wait milliseconds have passed.
setTimeout_immediately(args, wait, now) == [set |-> TRUE, due |-> now, args |-> args]

setTimeout(args, wait, now) == [set |-> TRUE, due |-> now + wait, args |-> args]

\* loadTodos up to its await (part_000:245-253): the request fetchTodos sends
\* for the filter and the search the page has at this moment.
loadTodos(filterNow, searchNow) ==
    fetchTodos(IF filterNow # JSString(<<"a", "l", "l">>) THEN filterNow ELSE Null,
               IF Truthy(searchNow) THEN searchNow ELSE Null)

\* handleSearch(e) with e.target.value = value (part_000:225-228)
handleSearch(value) ==
    /\ searchQuery' = JSString(trim(value))
    /\ inFlight' = inFlight \cup {loadTodos(currentFilter, JSString(trim(value)))}

\* An input event of the search box whose target holds value: the function
\* debounce returned clears the timer and sets a new one (part_000:432-439).
InputEvent(value) ==
    /\ Len(events) < MaxEvents
    /\ events' = Append(events, [at |-> clock, value |-> value])
    /\ timeout' = setTimeout(value, Wait, clock)
    /\ UNCHANGED <<clock, calls, currentFilter, searchQuery, inFlight, rendered, single>>
    /\ UNCHANGED serverVars

\* Time passes; a timer that is due may run later than it is due.
Tick ==
    /\ clock < MaxTicks * TickMs
    /\ clock' = clock + TickMs
    /\ UNCHANGED <<timeout, events, calls, currentFilter, searchQuery, inFlight,
                   rendered, single>>
    /\ UNCHANGED serverVars

\* The timer runs later: clearTimeout and func(...args), where func is
\* handleSearch (part_000:225-228), which sets searchQuery and calls loadTodos.
TimerFires ==
    /\ timeout.set
    /\ clock >= timeout.due
    /\ timeout' = NoTimer
    /\ calls' = Append(calls, [at |-> clock, args |-> timeout.args, after |-> Len(events)])
    /\ handleSearch(timeout.args)
    /\ UNCHANGED <<clock, events, currentFilter, rendered, single>>
    /\ UNCHANGED serverVars

NextDebounce ==
    \/ \E value \in SearchValues : InputEvent(value)
    \/ Tick
    \/ TimerFires

SpecDebounce == Init /\ [][NextDebounce]_vars

\* C33: every run of the debounced search handler happens after at least one
\* input event, at least 300 ms after the last input event before it, with
\* the arguments of that event, and at most once for that burst of events.
C33_Debounced ==
    \A k \in 1..Len(calls) :
        /\ calls[k].after \in 1..Len(events)
        /\ calls[k].at >= events[calls[k].after].at + 300
        /\ calls[k].args = events[calls[k].after].value
        /\ \A j \in 1..Len(events) :
               events[j].at < calls[k].at => j <= calls[k].after
        /\ k > 1 => calls[k - 1].after < calls[k].after

\* Two bursts, each answered by one run carrying the value of its last event.
C33_Witness ==
    /\ Len(calls) = 2
    /\ Len(events) = 3
    /\ calls[1].after = 2
    /\ events[1].value # events[2].value
    /\ searchQuery = JSString(trim(events[3].value))

(***************************************************************************)
(* The list of the page: overlapping loadTodos calls and renderTodos.      *)
(***************************************************************************)
MaxPageTodos == 3   \* todos the single-user server holds when the page loads

\* What the single-user server can hold: POST /todos stores a priority that is
\* low, medium or high, or a falsy one such as null (server.js:438-441).
PageCollections ==
    UNION { { [i \in 1..n |-> [id |-> i,
                               title |-> <<"a">>,
                               completed |-> f[i].completed,
                               priority |-> f[i].priority,
                               createdAt |-> "2024-01-01T12:00:00.000Z"]] :
              f \in [1..n -> [completed : BOOLEAN,
                              priority : validPriorities \cup {Null}]] } :
            n \in 0..MaxPageTodos }

PageFilters == {JSString(<<"a", "l", "l">>), JSString(<<"completed">>)}

\* The page after DOMContentLoaded (part_000:42-47): its first loadTodos is
\* waiting for the answer.
InitPage ==
    /\ userDataCache = EmptyMap
    /\ disk = [f \in Files |-> NoFile]
    /\ returned = [u \in Users |-> <<>>]
    /\ deleted = [u \in Users |-> {}]
    /\ lastWrite = [u \in Users |-> "none"]
    /\ everReturned = [u \in Users |-> {}]
    /\ creates = 0
    /\ task = NoTask
    /\ seen = NoRead
    /\ clock = 0
    /\ timeout = NoTimer
    /\ events = <<>>
    /\ calls = <<>>
    /\ currentFilter = JSString(<<"a", "l", "l">>)
    /\ searchQuery = JSString(<<>>)
    /\ inFlight = {loadTodos(JSString(<<"a", "l", "l">>), JSString(<<>>))}
    /\ rendered = <<>>
    /\ \E todos \in PageCollections :
           single = [todos |-> todos, nextId |-> Len(todos) + 1,
                     file |-> IF todos = <<>> THEN NoFile
                              ELSE JSONstringify(todos, Len(todos) + 1)]

\* priorityOrder[priority]: undefined for a priority that is no key of it.
priorityOrder(priority) ==
    CASE priority = JSString(HIGH) -> [t |-> "number", v |-> 1]
      [] priority = JSString(MEDIUM) -> [t |-> "number", v |-> 2]
      [] priority = JSString(LOW) -> [t |-> "number", v |-> 3]
      [] OTHER -> Undefined

\* The comparator of sortTodos (part_000:389-396); the difference of two
\* priorityOrder values is NaN when one of them is undefined.
compare(a, b) ==
    IF a.completed # b.completed
    THEN [nan |-> FALSE, v |-> IF a.completed THEN 1 ELSE -1]
    ELSE LET x == priorityOrder(a.priority)
             y == priorityOrder(b.priority)
         IN IF x.t = "number" /\ y.t = "number"
            THEN [nan |-> FALSE, v |-> x.v - y.v]
            ELSE [nan |-> TRUE]

\* sortTodos (part_000:380-397): the arrays todos.sort(comparefn) can leave.
\* A result of NaN counts as 0.  With a comparator that answers a number for every pair every
\* engine leaves the one sorted, stable order; with one that answers NaN the
\* order is implementation-defined, and the engines sort an array this short
\* by insertion, searching the place of each element from the right or by
\* bisection.
sortTodos(todos) ==
    LET less(x, y) == LET c == compare(x, y) IN ~c.nan /\ c.v < 0
        insert(sorted, x, at) ==
            [i \in 1..Len(sorted) + 1 |->
                IF i <= at THEN sorted[i] ELSE IF i = at + 1 THEN x ELSE sorted[i - 1]]
        fromRight(sorted, x) ==
            LET notLess == {k \in 1..Len(sorted) : ~less(x, sorted[k])}
            IN IF notLess = {} THEN 0
               ELSE CHOOSE k \in notLess : \A m \in notLess : m <= k
        RECURSIVE bisect(_, _, _, _)
        bisect(sorted, x, left, right) ==
            IF left >= right THEN left
            ELSE LET mid == left + ((right - left) \div 2)
                 IN IF less(x, sorted[mid + 1])
                    THEN bisect(sorted, x, left, mid)
                    ELSE bisect(sorted, x, mid + 1, right)
        RECURSIVE linear(_)
        linear(n) ==
            IF n = 0 THEN <<>>
            ELSE LET sorted == linear(n - 1)
                 IN insert(sorted, todos[n], fromRight(sorted, todos[n]))
        RECURSIVE binary(_)
        binary(n) ==
            IF n = 0 THEN <<>>
            ELSE LET sorted == binary(n - 1)
                 IN insert(sorted, todos[n], bisect(sorted, todos[n], 0, n - 1))
    IN {linear(Len(todos)), binary(Len(todos))}

\* renderTodos (part_000:272-291): the lists it can leave on the page.
renderTodos(todos) == IF Len(todos) = 0 THEN {<<>>} ELSE sortTodos(todos)

\* A burst of input events in the search box has ended and the debounced
\* handleSearch runs.
Search(value) ==
    /\ handleSearch(value)
    /\ UNCHANGED <<clock, timeout, events, calls, currentFilter, rendered, single>>
    /\ UNCHANGED serverVars

\* handleFilter(filter) (part_000:230-239)
HandleFilter(filter) ==
    /\ currentFilter' = filter
    /\ inFlight' = inFlight \cup {loadTodos(filter, searchQuery)}
    /\ UNCHANGED <<clock, timeout, events, calls, searchQuery, rendered, single>>
    /\ UNCHANGED serverVars

\* The answer to a list request arrives and loadTodos resumes after its await
\* (part_000:250-255): it renders the todos of this answer.
Response(req) ==
    /\ req \in inFlight
    /\ inFlight' = inFlight \ {req}
    /\ LET res == singleGetTodos(req.filter, req.search, single)
       IN IF res.status = 200
          THEN rendered' \in renderTodos(res.body)
          ELSE UNCHANGED rendered
    /\ UNCHANGED <<clock, timeout, events, calls, currentFilter, searchQuery, single>>
    /\ UNCHANGED serverVars

NextPage ==
    \/ \E value \in {<<"A", " ">>} : Search(value)
    \/ \E filter \in PageFilters : HandleFilter(filter)
    \/ \E req \in inFlight : Response(req)

SpecPage == InitPage /\ [][NextPage]_vars

\* The lists renderTodos can leave for the server's answer to the filter and
\* the search query the page has now.
currentAnswer ==
    renderTodos(singleGetTodos(
        IF currentFilter = JSString(<<"a", "l", "l">>) THEN Undefined ELSE currentFilter,
        IF searchQuery = JSString(<<>>) THEN Undefined ELSE searchQuery,
        single).body)

\* C34: once no list request is in flight, the rendered list is the server's
\* answer for the current filter and the current search query.
C34_RendersCurrentAnswer == inFlight = {} => rendered \in currentAnswer

\* high, then medium, then low
rank(priority) ==
    CASE priority = JSString(HIGH) -> 1
      [] priority = JSString(MEDIUM) -> 2
      [] priority = JSString(LOW) -> 3

\* C35: in the rendered list every pending todo comes before every completed
\* todo, and within the pending and within the completed todos a todo of
\* priority high comes before one of medium, and one of medium before one of low.
C35_RenderedInOrder ==
    \A i, j \in 1..Len(rendered) :
        i < j =>
            /\ ~(rendered[i].completed /\ ~rendered[j].completed)
            /\ ( /\ rendered[i].completed = rendered[j].completed
                 /\ rendered[i].priority \in validPriorities
                 /\ rendered[j].priority \in validPriorities )
               => rank(rendered[i].priority) <= rank(rendered[j].priority)

\* The same, for the lists in which every todo has one of the three priorities.
RenderedInOrderOfThree ==
    (\A i \in 1..Len(rendered) : rendered[i].priority \in validPriorities)
        => C35_RenderedInOrder

(***************************************************************************)
(* Stats of large collections: the rounding of completionRate.             *)
(***************************************************************************)
MaxRateTodos == 201     \* todos of the stored collection

\* A stored collection of total todos of which the first completed are
\* completed.
RateCollection(completed, total) ==
    [i \in 1..total |-> [id |-> i - 1,
                         title |-> <<"A">>,
                         completed |-> i <= completed,
                         priority |-> JSString(MEDIUM),
                         createdAt |-> "2024-01-01T12:00:00.000Z"]]

InitRates ==
    /\ InitOutside
    /\ userDataCache = EmptyMap
    /\ \E total \in 0..MaxRateTodos : \E completed \in 0..total :
         LET c == RateCollection(completed, total)
         IN /\ disk = [f \in Files |->
                         IF f = getUserDataFile("user_0001") /\ c # <<>>
                         THEN JSONstringify(c, Len(c))
                         ELSE NoFile]
            /\ everReturned = [u \in Users |-> IF u = "user_0001" THEN ids(c) ELSE {}]
            /\ creates = Len(c)
    /\ returned = [u \in Users |-> <<>>]
    /\ deleted = [u \in Users |-> {}]
    /\ lastWrite = [u \in Users |-> "none"]
    /\ task = NoTask
    /\ seen = NoRead

NextRates ==
    \/ GetStats("user_0001")
    \/ Restart

SpecRates == InitRates /\ [][NextRates]_vars

\* C36 as stated: stats answers completionRate = 100 only when there are
\* todos and every one is completed, and 0 only when none is completed.
C36_OriginalExtremes ==
    \A u \in Users :
        LET todos == StateOf(u).todos
            r == handleGetStats(u, userDataCache, disk)
            done(todo) == todo.completed
        IN /\ r.body.completionRate = 100
                => Len(todos) > 0 /\ count(todos, done) = Len(todos)
           /\ r.body.completionRate = 0 => count(todos, done) = 0

\* C36: stats answers completionRate = 100 exactly when there are todos and
\* at least 99.5 % of them are completed, and 0 exactly when fewer than 0.5 %
\* are completed (or there is none); for fewer than 200 todos that is: 100
\* only when every todo is completed and 0 only when none is.
C36_Extremes ==
    \A u \in Users :
        LET todos == StateOf(u).todos
            r == handleGetStats(u, userDataCache, disk)
            done(todo) == todo.completed
            total == Len(todos)
            completed == count(todos, done)
        IN /\ r.body.completionRate = 100
                <=> (total > 0 /\ 200 * completed >= 199 * total)
           /\ r.body.completionRate = 0
                <=> (total = 0 \/ 200 * completed < total)
           /\ total < 200 =>
                /\ r.body.completionRate = 100 => total > 0 /\ completed = total
                /\ r.body.completionRate = 0 => completed = 0

\* Stats were asked for 200 todos of which 199 are completed: 99.5 is
\* rounded to 100.
C36_Witness ==
    \E u \in DOMAIN userDataCache :
        LET r == handleGetStats(u, userDataCache, disk)
        IN /\ r.body.total = 200
           /\ r.body.completed = 199
           /\ r.body.completionRate = 100

(***************************************************************************)
(* The other handlers of the single-user variant (server.js:403-634): the  *)
(* state is the todos array, nextId and the file todos.json.               *)
(***************************************************************************)
Answer(status, body, state) == [status |-> status, body |-> body, state |-> state]

\* saveTodos (server.js:403-410) with write outcome w
saveTodos(state, w) ==
    IF w = "ok" THEN [state EXCEPT !.file = JSONstringify(state.todos, state.nextId)]
    ELSE IF w = "truncated" THEN [state EXCEPT !.file = TruncatedText]
    ELSE state

\* GET /todos/stats (server.js:473-495)
singleGetStats(state) ==
    LET todos == state.todos
        isCompleted(todo) == todo.completed
        isPending(todo) == ~todo.completed
        isLow(todo) == todo.priority = JSString(LOW)
        isMedium(todo) == todo.priority = JSString(MEDIUM)
        isHigh(todo) == todo.priority = JSString(HIGH)
        completed == Len(SelectSeq(todos, isCompleted))
        total == Len(todos)
    IN Answer(200,
              [total |-> total,
               completed |-> completed,
               pending |-> Len(SelectSeq(todos, isPending)),
               completionRate |-> completionRate(completed, total),
               priorityCounts |-> [low |-> Len(SelectSeq(todos, isLow)),
                                   medium |-> Len(SelectSeq(todos, isMedium)),
                                   high |-> Len(SelectSeq(todos, isHigh))]],
              state)

\* GET /todos/:id (server.js:498-516)
singleGetTodo(param, state) ==
    LET id == parseInt(param)
        index == findIndex(state.todos, id)
    IN IF isNaN(id) THEN Answer(400, Error("Invalid todo ID"), state)
       ELSE IF index = -1 THEN Answer(404, Error("Todo not found"), state)
       ELSE Answer(200, state.todos[index + 1], state)

\* POST /todos (server.js:519-545)
singlePostTodos(body, now, w, state) ==
    LET valid == validateTodo(body)
        completed == IF body.completed = Undefined THEN JSBoolean(FALSE) ELSE body.completed
        priority == IF body.priority = Undefined THEN JSString(MEDIUM) ELSE body.priority
        newTodo == [id |-> state.nextId,
                    title |-> trim(body.title.v),
                    completed |-> Truthy(completed),
                    priority |-> priority,
                    createdAt |-> now]
    IN IF valid # "next" THEN Answer(400, Error(valid), state)
       ELSE IF ~validatePriority(priority)
       THEN Answer(400, Error("Priority must be one of: low, medium, high"), state)
       ELSE Answer(201, newTodo,
                   saveTodos([state EXCEPT !.todos = push(@, newTodo),
                                           !.nextId = @ + 1], w))

\* PUT /todos/:id (server.js:548-607)
singlePutTodo(param, body, w, state) ==
    LET id == parseInt(param)
        todoIndex == findIndex(state.todos, id)
        old == state.todos[todoIndex + 1]
        withTitle ==
            IF body.title # Undefined THEN [old EXCEPT !.title = trim(body.title.v)] ELSE old
        withCompleted ==
            IF body.completed # Undefined
            THEN [withTitle EXCEPT !.completed = Truthy(body.completed)]
            ELSE withTitle
        updated ==
            IF body.priority # Undefined
            THEN [withCompleted EXCEPT !.priority = body.priority]
            ELSE withCompleted
    IN IF isNaN(id) THEN Answer(400, Error("Invalid todo ID"), state)
       ELSE IF todoIndex = -1 THEN Answer(404, Error("Todo not found"), state)
       ELSE IF body.title # Undefined /\ body.title.t # "string"
       THEN Answer(400, Error("Title must be a string"), state)
       ELSE IF body.title # Undefined /\ Len(trim(body.title.v)) = 0
       THEN Answer(400, Error("Title cannot be empty"), state)
       ELSE IF body.title # Undefined /\ Len(body.title.v) > MaxTitleLength
       THEN Answer(400, Error("Title must be less than 500 characters"), state)
       ELSE IF body.priority # Undefined /\ ~validatePriority(body.priority)
       THEN Answer(400, Error("Priority must be one of: low, medium, high"), state)
       ELSE Answer(200, updated,
                   saveTodos([state EXCEPT !.todos[todoIndex + 1] = updated], w))

\* DELETE /todos/:id (server.js:610-634)
singleDeleteTodo(param, w, state) ==
    LET id == parseInt(param)
        todoIndex == findIndex(state.todos, id)
        deletedTodo == state.todos[todoIndex + 1]
    IN IF isNaN(id) THEN Answer(400, Error("Invalid todo ID"), state)
       ELSE IF todoIndex = -1 THEN Answer(404, Error("Todo not found"), state)
       ELSE Answer(200, [message |-> "Todo deleted successfully", todo |-> deletedTodo],
                   saveTodos([state EXCEPT !.todos = splice(@, todoIndex)], w))

(***************************************************************************)
(* The two servers side by side: every request goes to the multi-user      *)
(* server, as the one user user_0001, and to the single-user variant.      *)
(* Both start from an empty store and every write succeeds.                *)
(***************************************************************************)
MaxLockstepCreates == 2     \* successful creates explored side by side

LockstepBodies ==
    { Body(JSString(<<" ", "A", " ">>), Undefined, Undefined),
      Body(JSString(<<"b">>), JSBoolean(TRUE), JSString(HIGH)),
      Body(JSString(<<" ">>), Undefined, Undefined) }

LockstepPatches ==
    { Body(Undefined, JSBoolean(TRUE), Undefined),
      Body(JSString(<<" ", "b", " ">>), Undefined, JSString(LOW)),
      Body(Undefined, Undefined, JSString(<<"x">>)) }

LockstepParams ==
    {[digits |-> TRUE, v |-> n] : n \in 0..MaxLockstepCreates} \cup {[digits |-> FALSE]}

InitLockstep ==
    /\ InitOutside
    /\ userDataCache = EmptyMap
    /\ disk = [f \in Files |-> NoFile]
    /\ returned = [u \in Users |-> <<>>]
    /\ deleted = [u \in Users |-> {}]
    /\ lastWrite = [u \in Users |-> "none"]
    /\ everReturned = [u \in Users |-> {}]
    /\ creates = 0
    /\ task = NoTask
    /\ seen = NoRead

\* The state after the multi-user server returned r and the variant answered s.
ApplyBoth(r, s) ==
    /\ userDataCache' = r.cache
    /\ disk' = r.disk
    /\ lastWrite' = IF r.write = "none" THEN lastWrite
                    ELSE [lastWrite EXCEPT !["user_0001"] = outcome(r.write)]
    /\ task' = NoTask
    /\ seen' = NoRead
    /\ single' = s.state
    /\ UNCHANGED <<clock, timeout, events, calls, currentFilter, searchQuery,
                   inFlight, rendered>>

BothGetTodos(filterParam, search) ==
    /\ ApplyBoth(handleGetTodos("user_0001", filterParam, search, userDataCache, disk),
                 singleGetTodos(filterParam, search, single))
    /\ UNCHANGED <<returned, deleted, everReturned, creates>>

BothGetStats ==
    /\ ApplyBoth(handleGetStats("user_0001", userDataCache, disk), singleGetStats(single))
    /\ UNCHANGED <<returned, deleted, everReturned, creates>>

BothGetTodo(param) ==
    /\ ApplyBoth(handleGetTodo("user_0001", param, userDataCache, disk),
                 singleGetTodo(param, single))
    /\ UNCHANGED <<returned, deleted, everReturned, creates>>

BothPostTodos(body, now) ==
    LET r == handlePostTodos("user_0001", body, now, "ok", userDataCache, disk) IN
    /\ r.status = 201 => creates < MaxLockstepCreates
    /\ ApplyBoth(r, singlePostTodos(body, now, "ok", single))
    /\ IF r.status = 201
       THEN /\ returned' = [returned EXCEPT !["user_0001"] = Append(@, r.body.id)]
            /\ everReturned' = [everReturned EXCEPT !["user_0001"] = @ \cup {r.body.id}]
            /\ creates' = creates + 1
       ELSE UNCHANGED <<returned, everReturned, creates>>
    /\ UNCHANGED deleted

BothPutTodo(param, body) ==
    /\ ApplyBoth(handlePutTodo("user_0001", param, body, "ok", userDataCache, disk),
                 singlePutTodo(param, body, "ok", single))
    /\ UNCHANGED <<returned, deleted, everReturned, creates>>

BothDeleteTodo(param) ==
    LET r == handleDeleteTodo("user_0001", param, "ok", userDataCache, disk) IN
    /\ ApplyBoth(r, singleDeleteTodo(param, "ok", single))
    /\ deleted' = IF r.status = 200
                  THEN [deleted EXCEPT !["user_0001"] = @ \cup {r.body.todo.id}]
                  ELSE deleted
    /\ UNCHANGED <<returned, everReturned, creates>>

NextLockstep ==
    \/ \E f \in FilterInputs, q \in SearchInputs : BothGetTodos(f, q)
    \/ BothGetStats
    \/ \E p \in LockstepParams : BothGetTodo(p)
    \/ \E b \in LockstepBodies, t \in Times : BothPostTodos(b, t)
    \/ \E p \in LockstepParams, b \in LockstepPatches : BothPutTodo(p, b)
    \/ \E p \in LockstepParams : BothDeleteTodo(p)

SpecLockstep == InitLockstep /\ [][NextLockstep]_vars

\* The two answers have the same status and the same body.
same(r, s) == r.status = s.status /\ r.body = s.body

\* C37: in every state the two servers reach side by side, every list, get,
\* stats, create, update and delete request is answered by both with the
\* same status and the same records, ids included.
C37_SameAnswers ==
    /\ \A f \in FilterInputs, q \in SearchInputs :
           same(handleGetTodos("user_0001", f, q, userDataCache, disk),
                singleGetTodos(f, q, single))
    /\ same(handleGetStats("user_0001", userDataCache, disk), singleGetStats(single))
    /\ \A p \in LockstepParams :
           /\ same(handleGetTodo("user_0001", p, userDataCache, disk),
                   singleGetTodo(p, single))
           /\ same(handleDeleteTodo("user_0001", p, "ok", userDataCache, disk),
                   singleDeleteTodo(p, "ok", single))
           /\ \A b \in LockstepPatches :
                  same(handlePutTodo("user_0001", p, b, "ok", userDataCache, disk),
                       singlePutTodo(p, b, "ok", single))
    /\ \A b \in LockstepBodies, t \in Times :
           same(handlePostTodos("user_0001", b, t, "ok", userDataCache, disk),
                singlePostTodos(b, t, "ok", single))

====
